---- MODULE Spec2Model ----
(***************************************************************************)
(* Model of the vacancy filtering pipeline of hh-responder                 *)
(* (internal/filtering, internal/headhunter) and of the retry-aware Gemini *)
(* generator (internal/ai/gemini).                                         *)
(*                                                                         *)
(* Spec     : one call of filtering.Run over a list of filters.            *)
(* GenSpec  : one call of Generator.generateWithModel.                     *)
(***************************************************************************)
EXTENDS Integers, Sequences, FiniteSets, TLC

\* ------------------------------------------------------------------------
\* Bounds
\* ------------------------------------------------------------------------
\* Largest number of vacancies in the collection handed to Run.
MaxVac == 2
\* Largest configured maxRetries explored for the generator.
MaxRetriesCfg == 4
\* The maxRetries configured where the backoff is followed up to its cap.
MaxBackoffRetries == 8
\* Largest number of entries appended to the exclude file of the store.
MaxEntries == 3
\* Largest number of Disable calls the AI filter receives before a run.
MaxDisableCalls == 2
\* Largest number of runs made one after the other on the same exclude file.
MaxRuns == 2
\* Largest number of pieces an override text is put together from.
MaxPieces == 3
\* Largest number of lines of the free instructions.
MaxLines == 6

\* ------------------------------------------------------------------------
\* Data
\* ------------------------------------------------------------------------
EmployerIDs == {"e1", "e2"}

\* headhunter.AIAssessment; present = FALSE is the nil pointer.
NoAI ==
  [present |-> FALSE, fit |-> FALSE, score |-> 0, reason |-> "",
   message |-> "", raw |-> "", error |-> ""]

\* headhunter.Vacancy restricted to the fields the filters read or write.
\* detailed = TRUE marks the record returned by Client.GetVacancy.
Vacancy(id, hasTest, emp) ==
  [id |-> id, hasTest |-> hasTest, emp |-> emp, detailed |-> FALSE, ai |-> NoAI]

\* The attributes <<HasTest, Employer.ID>> a vacancy of the search result has.
VacancyKinds == { <<TRUE, "e1">>, <<FALSE, "e1">>, <<FALSE, "e2">> }

\* Collections handed to Run: n vacancies with IDs 1..n, of any kinds.
InitialCollections ==
  UNION { { [k \in 1..n |-> Vacancy(k, kind[k][1], kind[k][2])] :
              kind \in [1..n -> VacancyKinds] } :
          n \in 0..MaxVac }

\* Filter names, in the order of the pipeline described by the spec.
WithTestName == "with_test"
AppliedHistoryName == "applied_history"
EmployersName == "employers"
ExcludeFileName == "exclude_file"
AIFitName == "ai_fit"

FilterNames ==
  {WithTestName, AppliedHistoryName, EmployersName, ExcludeFileName, AIFitName}

\* Disable was called on no filter.
NeverDisabled == [name \in FilterNames |-> ""]

\* Lists of filters passed to Run.
StepLists ==
  { <<WithTestName, AppliedHistoryName, EmployersName, ExcludeFileName, AIFitName>>,
    <<AIFitName, ExcludeFileName, WithTestName>>,
    <<>> }

\* cfg.Employers
EmployerLists == { <<>>, <<"e2", "e1">> }

\* headhunter.ExcludeActor and the exclude reasons.
ExcludeActorAI == "AI"
ExcludeActorHuman == "Human"
ExcludeReasonManualApply == "manual_apply"
excludeReasonAIFallback == "ai_rejected"

\* One entry of the exclude file (headhunter.ExcludedVacancy: ID, Actor, Reason).
ExcludedVacancy(id, actor, reason) == [id |-> id, actor |-> actor, reason |-> reason]

\* The bytes of an exclude file, in pieces: the opening of the JSON document
\* up to the list, one piece per entry, and the closing of the list and of
\* the document.
NoEntry == ExcludedVacancy(0, "", "")
OpenTok == [tok |-> "{", entry |-> NoEntry]
CloseTok == [tok |-> "}", entry |-> NoEntry]
ItemTok(e) == [tok |-> "item", entry |-> e]

\* json.Encoder.Encode of an ExcludedVacancies value.
jsonEncode(items) ==
  <<OpenTok>> \o [k \in 1..Len(items) |-> ItemTok(items[k])] \o <<CloseTok>>

\* json.Decoder.Decode into an ExcludedVacancies value: the first JSON
\* document of the stream is read, what follows it is not looked at.
jsonDecode(content) ==
  LET closes == { k \in 1..Len(content) : content[k].tok = "}" }
      last == IF closes = {} THEN 0 ELSE CHOOSE k \in closes : \A l \in closes : k <= l
  IN  IF content = <<>> \/ Head(content).tok # "{" \/ last = 0
         \/ \E k \in 2..(last - 1) : content[k].tok # "item"
        THEN [err |-> "decode", items |-> <<>>]
        ELSE [err |-> "", items |-> [k \in 1..(last - 2) |-> content[k + 1].entry]]

\* States of the exclude file on disk before the run: missing, empty (size
\* 0), or holding one entry written by the operator (writable or read-only).
MissingFile == [exists |-> FALSE, writable |-> TRUE, content |-> <<>>]
EmptyFile == [exists |-> TRUE, writable |-> TRUE, content |-> <<>>]
OperatorFile ==
  [exists |-> TRUE, writable |-> TRUE,
   content |-> jsonEncode(<<ExcludedVacancy(1, ExcludeActorHuman, ExcludeReasonManualApply)>>)]
InitialFiles ==
  { MissingFile,
    EmptyFile,
    OperatorFile,
    [exists |-> TRUE, writable |-> FALSE,
     content |-> jsonEncode(<<ExcludedVacancy(2, ExcludeActorHuman, ExcludeReasonManualApply)>>)] }

\* The exclude-file setting with the file it names: no path (and a file of
\* the operator lying around), or the path "p" of any of the files above.
ExcludeSetups ==
  { <<"", OperatorFile>> } \cup { <<"p", f>> : f \in InitialFiles }

\* Configuration of the AI filter: f.config.Gemini nil, model blank, or valid.
AIConfigs == {"ok", "blank_model", "nil_gemini"}

\* <<enabled, config>> of the AI filter: enabled with any configuration,
\* switched off with a valid or an invalid one.
AISetups ==
  { <<TRUE, c>> : c \in AIConfigs } \cup { <<FALSE, "ok">>, <<FALSE, "blank_model">> }

\* The Logger of the dependencies: set with every setup of the AI filter,
\* nil (FALSE) as well with the validly configured ones.
LoggersWith(setup) == IF setup[2] = "ok" THEN BOOLEAN ELSE {TRUE}

\* Results of ai.Matcher.Evaluate: an error, or an assessment.
FitAssessment(fit, score, reason) ==
  [err |-> "", fit |-> fit, score |-> score, reason |-> reason,
   message |-> "msg", raw |-> "raw"]
EvaluateError == [err |-> "evaluate failed", fit |-> FALSE, score |-> 0,
                  reason |-> "", message |-> "", raw |-> ""]
MatcherOutcomes ==
  { EvaluateError,
    FitAssessment(TRUE, 8, "good"),
    FitAssessment(FALSE, 3, "bad"),
    FitAssessment(FALSE, 3, "") }

\* Results of Client.GetNegotiations: an error or the IDs already applied to.
NegotiationOutcomes ==
  { [err |-> "request failed", ids |-> <<>>],
    [err |-> "", ids |-> <<>>],
    [err |-> "", ids |-> <<1>>],
    [err |-> "", ids |-> <<2, 1>>] }

\* ------------------------------------------------------------------------
\* headhunter.Vacancies: the removal operations
\* ------------------------------------------------------------------------
\* A RemoveByIndex that reports the removal and leaves the slice as it was.
RemoveByIndexKeeps(items, idx) == items

\* A RemoveByIndex that cuts the last item off without moving it to idx.
RemoveByIndexTruncates(items, idx) == SubSeq(items, 1, Len(items) - 1)

\* Vacancies.RemoveByIndex: the last item takes the place of item idx.
RemoveByIndex(items, idx) ==
  [k \in 1..(Len(items) - 1) |-> IF k = idx THEN items[Len(items)] ELSE items[k]]

\* Vacancy.GetStringField
GetStringField(va, name) ==
  CASE name = "ID" -> va.id
    [] name = "EmployerID" -> va.emp
    [] OTHER -> ""

\* The smallest of the indices hits, 0 when there is none: the index at
\* which a `for idx, vacancy := range v.Items` loop reaches its break.
FirstIndex(hits) ==
  IF hits = {} THEN 0 ELSE CHOOSE k \in hits : \A m \in hits : k <= m

\* Vacancies.ExcludeWithTest: the loop breaks after the first removal.
ExcludeWithTest(items) ==
  LET idx == FirstIndex({k \in 1..Len(items) : items[k].hasTest})
  IN IF idx = 0
       THEN [items |-> items, excluded |-> <<>>]
       ELSE [items |-> RemoveByIndex(items, idx), excluded |-> <<items[idx].id>>]

\* Vacancies.Exclude: for every target, the first matching item is removed.
RECURSIVE Exclude(_, _, _)
Exclude(items, name, targets) ==
  IF targets = <<>>
    THEN [items |-> items, excluded |-> <<>>]
    ELSE LET idx == FirstIndex({k \in 1..Len(items) :
                                  GetStringField(items[k], name) = Head(targets)})
             now == IF idx = 0 THEN items ELSE RemoveByIndex(items, idx)
             gone == IF idx = 0 THEN <<>> ELSE <<items[idx].id>>
             later == Exclude(now, name, Tail(targets))
         IN [items |-> later.items, excluded |-> gone \o later.excluded]

\* ------------------------------------------------------------------------
\* The exclude file
\* ------------------------------------------------------------------------
\* A ToExcluded that copies the reason of the assessment as it is.
ToExcludedNoFallback(items, actor, reason) ==
  [k \in 1..Len(items) |->
     [id |-> items[k].id, actor |-> actor,
      reason |-> IF actor = "AI" THEN items[k].ai.reason ELSE reason]]

\* Vacancies.ToExcluded(actor, reason)
ToExcluded(items, actor, reason) ==
  [k \in 1..Len(items) |->
     ExcludedVacancy(items[k].id, actor,
       IF actor = ExcludeActorAI
         THEN (IF items[k].ai.reason = "" THEN excludeReasonAIFallback
               ELSE items[k].ai.reason)
         ELSE reason)]

\* A GetExludedVacanciesFromFile that takes a missing file for an empty one.
GetExludedVacanciesLenient(f) ==
  IF ~f.exists \/ Len(f.content) = 0
    THEN [err |-> "", items |-> <<>>]
    ELSE jsonDecode(f.content)

\* GetExludedVacanciesFromFile: os.Open fails on a missing file; a file of
\* size 0 gives the empty list; anything else is decoded.
GetExludedVacanciesFromFile(f) ==
  IF ~f.exists
    THEN [err |-> "open: no such file", items |-> <<>>]
  ELSE IF Len(f.content) = 0
    THEN [err |-> "", items |-> <<>>]
  ELSE jsonDecode(f.content)

\* ExcludedVacancies.VacanciesIDs
VacanciesIDs(excluded) == [k \in 1..Len(excluded) |-> excluded[k].id]

\* A ToFile that opens the file for appending.
ToFileAppending(f, excluded) ==
  IF f.exists /\ ~f.writable
    THEN [err |-> "open: permission denied", file |-> f]
    ELSE [err |-> "",
          file |-> [exists |-> TRUE, writable |-> TRUE,
                    content |-> f.content \o jsonEncode(excluded)]]

\* ExcludedVacancies.ToFile: os.OpenFile(O_CREATE|O_WRONLY) fails on a file
\* that cannot be written; the document is written from the start of the
\* file, which is not truncated.
ToFile(f, excluded) ==
  IF f.exists /\ ~f.writable
    THEN [err |-> "open: permission denied", file |-> f]
    ELSE LET written == jsonEncode(excluded)
         IN  [err |-> "",
              file |-> [exists |-> TRUE, writable |-> TRUE,
                        content |-> written \o SubSeq(f.content, Len(written) + 1,
                                                      Len(f.content))]]

\* ------------------------------------------------------------------------
\* Step statistics
\* ------------------------------------------------------------------------
Step(initial, dropped, left) == [initial |-> initial, dropped |-> dropped, left |-> left]

VARIABLES
  steps,          \* the []Filter passed to Run
  logger,         \* whether the Logger of the dependencies is set (FALSE is nil)
  aiEnabled,      \* aiFitFilter.enabled
  aiReason,       \* aiFitFilter.reason
  disabledWith,   \* per filter name, the reason Disable was last called with ("" if never)
  aiDisableCalls, \* number of Disable calls the AI filter has received
  earlierRuns,    \* the evaluations (evalLog) of the runs finished before this one, in order
  aiConfig,       \* aiFitFilter.config, see AIConfigs
  ignoreApplied,  \* appliedHistoryFilter.ignore
  cfgEmployers,   \* Config.Employers
  excludePath,    \* viper "exclude-file" and AIFitFilterDeps.ExcludeFile: "" or "p"
  fEmployers,     \* employersFilter.employers
  fPath,          \* excludeFileFilter.path
  fAssessments,   \* aiFitFilter.assessments (the IDs it holds an assessment for)
  file,           \* the exclude file on disk
  fileOps,        \* number of reads and writes of the exclude file during the run
  v,              \* the Items of the *Vacancies handed to Run
  input,          \* the Items as they were when Run was called
  pc,             \* position inside Run
  i,              \* index of the current filter in either loop of Run
  j,              \* index of the current vacancy in the loop of the AI filter
  approved,       \* approved slice of evaluateVacanciesWithMatcher
  result,         \* what Run returned
  validateLog,    \* names of the filters whose Validate was invoked, in order
  applyLog,       \* per Apply invoked, in order: the filter's name, the error returned,
                  \* and the vacancy IDs it was told to exclude
  stepsLog,       \* one record per Apply that returned without error
  evalLog,        \* one record per vacancy the AI loop has gone through
  gMaxRetries,    \* Generator.maxRetries
  gpc,            \* position inside generateWithModel
  attempt,        \* loop variable of generateWithModel
  delay,          \* backoff delay of generateWithModel, in milliseconds
  decision,       \* retryDecision of the failed attempt being waited for
  ctxDone,        \* whether ctx is cancelled or past its deadline
  calls,          \* number of calls of models.GenerateContent so far
  waits,          \* the durations handed to waitFor so far, in milliseconds
  outs,           \* what models.GenerateContent returned, call by call
  genResult,      \* what generateWithModel returned
  mpc,            \* position inside Matcher.Evaluate
  mMinScore,      \* Matcher.minScore, in tenths
  mArgs,          \* whether the resume and the vacancy handed to Evaluate are non-nil
  mGenCalls,      \* number of calls of generator.GenerateContent by Evaluate
  mGen,           \* what generator.GenerateContent returned to Evaluate
  mResult,        \* what Evaluate returned
  sFile,          \* the exclude file of the store
  sAppended,      \* the batches of entries appended and written so far, in order
  sLoaded,        \* what the last GetExludedVacanciesFromFile returned, if nothing was written since
  pField,         \* the prompt override field being rendered
  pInput,         \* the operator's text for it, as runs of runes
  pOut,           \* the lines rendered into the prompt for it
  ppc             \* position of the prompt builder

pipeVars ==
  <<steps, logger, aiEnabled, aiReason, disabledWith, aiDisableCalls, earlierRuns, aiConfig, ignoreApplied, cfgEmployers, excludePath,
    fEmployers, fPath, fAssessments, file, fileOps, v, input, pc, i, j, approved,
    result, validateLog, applyLog, stepsLog, evalLog>>

genVars ==
  <<gMaxRetries, gpc, attempt, delay, decision, ctxDone, calls, waits, outs, genResult>>

matchVars == <<mpc, mMinScore, mArgs, mGenCalls, mGen, mResult>>

storeVars == <<sFile, sAppended, sLoaded>>

sanVars == <<pField, pInput, pOut, ppc>>

vars == <<pipeVars, genVars, matchVars, storeVars, sanVars>>

\* Run has not returned / returned (v, nil) / returned (nil, "<name>: <msg>").
NoResult == [status |-> "none", name |-> "", msg |-> "", hasColl |-> FALSE, coll |-> <<>>]
OkResult(items) == [status |-> "ok", name |-> "", msg |-> "", hasColl |-> TRUE, coll |-> items]
ErrResult(name, msg) == [status |-> "err", name |-> name, msg |-> msg, hasColl |-> FALSE, coll |-> <<>>]

\* Run did not return: a filter panicked on a nil pointer.
PanicResult(name) ==
  [status |-> "panic", name |-> name, msg |-> "nil pointer dereference",
   hasColl |-> FALSE, coll |-> <<>>]

\* Nothing was loaded from the exclude file.
NotLoaded == [status |-> "none", err |-> "", items |-> <<>>]

\* The exclude-file store is not exercised on its own.
StoreIdle ==
  /\ sFile = MissingFile
  /\ sAppended = <<>>
  /\ sLoaded = NotLoaded

\* The prompt builder is not exercised on its own.
SanIdle ==
  /\ pField = ""
  /\ pInput = <<>>
  /\ pOut = <<>>
  /\ ppc = "idle"

\* No text: the string beside a non-nil error, the Raw of no assessment.
NoText ==
  LET null == [t |-> "null", b |-> FALSE, s |-> "", n |-> 0]
  IN  [fence |-> "absent", valid |-> FALSE, fit |-> null, score |-> null,
       reason |-> null, message |-> null]

\* What generator.GenerateContent returns: an error ("" for nil) and a text.
NoGen == [err |-> "", raw |-> NoText]

\* Evaluate has not returned.
NoEval ==
  [status |-> "none", err |-> "", fit |-> FALSE, score |-> 0, reason |-> "",
   message |-> "", raw |-> NoText]

\* No Matcher.Evaluate is running: the pipeline sees the ai.Matcher
\* interface, the generator knows nothing of its caller.
MatchIdle ==
  /\ mpc = "idle"
  /\ mMinScore = 0
  /\ mArgs = [resume |-> TRUE, vacancy |-> TRUE]
  /\ mGenCalls = 0
  /\ mGen = NoGen
  /\ mResult = NoEval

\* The generator is not part of a pipeline run: Matcher is an interface there.
GenIdle ==
  /\ gMaxRetries = 0
  /\ gpc = "idle"
  /\ attempt = 0
  /\ delay = 0
  /\ decision = [retry |-> FALSE, delay |-> 0, quota |-> FALSE]
  /\ ctxDone = FALSE
  /\ calls = 0
  /\ waits = <<>>
  /\ outs = <<>>
  /\ genResult = [status |-> "none", text |-> <<>>, err |-> ""]

Init ==
  /\ GenIdle
  /\ MatchIdle
  /\ StoreIdle
  /\ SanIdle
  /\ steps \in StepLists
  /\ \E setup \in AISetups :
       /\ aiEnabled = setup[1]
       /\ aiConfig = setup[2]
       /\ logger \in LoggersWith(setup)
  /\ aiReason = ""
  /\ disabledWith = NeverDisabled
  /\ aiDisableCalls = 0
  /\ earlierRuns = <<>>
  /\ ignoreApplied \in BOOLEAN
  /\ cfgEmployers \in EmployerLists
  /\ \E setup \in ExcludeSetups : excludePath = setup[1] /\ file = setup[2]
  /\ fEmployers = <<>>
  /\ fPath = ""
  /\ fAssessments = {}
  /\ fileOps = [reads |-> 0, writes |-> 0]
  /\ v \in InitialCollections
  /\ input = v
  /\ pc = "validate"
  /\ i = 1
  /\ j = 0
  /\ approved = <<>>
  /\ result = NoResult
  /\ validateLog = <<>>
  /\ applyLog = <<>>
  /\ stepsLog = <<>>
  /\ evalLog = <<>>

\* ------------------------------------------------------------------------
\* The filters
\* ------------------------------------------------------------------------
\* An IsEnabled that ignores the switch.
IsEnabledAlways(name) == TRUE

\* Filter.IsEnabled: only the AI filter can be switched off.
IsEnabled(name) == IF name = AIFitName THEN aiEnabled ELSE TRUE

\* A Disable that flips the switch of the AI filter.
DisableToggles(name, ai, reason) ==
  IF name = AIFitName THEN [enabled |-> ~ai.enabled, reason |-> reason] ELSE ai

\* Filter.Disable(reason) on the filter called name, as the new <<enabled,
\* reason>> fields of the AI filter: the AI filter is switched off and keeps
\* the reason; the filters of steps.go have an empty Disable.
Disable(name, ai, reason) ==
  IF name = AIFitName THEN [enabled |-> FALSE, reason |-> reason] ELSE ai

\* Filter.Validate: the error it returns, "" for nil.  The filters of
\* steps.go always validate; the AI filter needs a Gemini model.
Validate(name) ==
  IF name # AIFitName THEN ""
  ELSE CASE aiConfig = "nil_gemini" ->
              "gemini configuration is required when ai filter is enabled"
         [] aiConfig = "blank_model" ->
              "gemini model is required when ai filter is enabled"
         [] OTHER -> ""

\* What an Apply returns: the collection (mutated in place), the Step, the error.
Applied(items, step, err) == [items |-> items, step |-> step, err |-> err]

\* withTestFilter.Apply
withTestApply(items) ==
  LET r == ExcludeWithTest(items)
  IN Applied(r.items, Step(Len(items), Len(r.excluded), Len(r.items)), "")

\* appliedHistoryFilter.Apply; neg is what Client.GetNegotiations returned.
appliedHistoryApply(items, ignore, neg) ==
  IF ignore THEN Applied(items, Step(Len(items), 0, Len(items)), "")
  ELSE IF neg.err # "" THEN Applied(items, Step(0, 0, 0), "get my negotiations")
  ELSE LET r == Exclude(items, "ID", neg.ids)
       IN Applied(r.items, Step(Len(items), Len(r.excluded), Len(r.items)), "")

\* employersFilter.Apply
employersApply(items, employers) ==
  IF Len(employers) = 0 THEN Applied(items, Step(Len(items), 0, Len(items)), "")
  ELSE LET r == Exclude(items, "EmployerID", employers)
       IN Applied(r.items, Step(Len(items), Len(r.excluded), Len(r.items)), "")

\* An exclude-file filter that hands back an empty collection when the file
\* cannot be read.
excludeFileApplyClearsOnError(items, path, f) ==
  IF path = "" THEN Applied(items, Step(Len(items), 0, Len(items)), "")
  ELSE LET excluded == GetExludedVacanciesFromFile(f)
       IN IF excluded.err # ""
            THEN Applied(<<>>, Step(0, 0, 0), "getting excluded vacancies from file")
            ELSE LET r == Exclude(items, "ID", VacanciesIDs(excluded.items))
                 IN Applied(r.items, Step(Len(items), Len(r.excluded), Len(r.items)), "")

\* An exclude-file filter that reads the file and removes nothing.
excludeFileApplyKeepsAll(items, path, f) ==
  IF path # "" /\ GetExludedVacanciesFromFile(f).err # ""
    THEN Applied(items, Step(0, 0, 0), "getting excluded vacancies from file")
    ELSE Applied(items, Step(Len(items), 0, Len(items)), "")

\* excludeFileFilter.Apply
excludeFileApply(items, path, f) ==
  IF path = "" THEN Applied(items, Step(Len(items), 0, Len(items)), "")
  ELSE LET excluded == GetExludedVacanciesFromFile(f)
       IN IF excluded.err # ""
            THEN Applied(items, Step(0, 0, 0), "getting excluded vacancies from file")
            ELSE LET r == Exclude(items, "ID", VacanciesIDs(excluded.items))
                 IN Applied(r.items, Step(Len(items), Len(r.excluded), Len(r.items)), "")

\* ------------------------------------------------------------------------
\* filtering.Run
\* ------------------------------------------------------------------------
\* A loop that walks the list from its end.
RangeAtReversed(list, k) == list[Len(list) + 1 - k]

\* `for _, x := range list`: the element of the k-th iteration.
RangeAt(list, k) == list[k]

\* A first loop that logs the Validate error and goes on.
ValidationNeverAborts(err) == FALSE

\* Run, first loop: whether a Validate error ends the run.
ValidationAborts(err) == err # ""

\* A second loop that logs the Apply error and goes on.
ApplyNeverAborts(err) == FALSE

\* Run, second loop: whether an Apply error ends the run.
ApplyAborts(err) == err # ""

\* Run, first loop, one iteration: a disabled filter is skipped, an enabled
\* one is validated; the first error is returned with the filter's name.
ValidateStep ==
  /\ pc = "validate"
  /\ i <= Len(steps)
  /\ LET name == RangeAt(steps, i)
         err == Validate(name)
     IN IF ~IsEnabled(name)
          THEN /\ i' = i + 1
               /\ UNCHANGED <<pc, result, validateLog, fEmployers, fPath>>
          ELSE /\ validateLog' = Append(validateLog, name)
               /\ fEmployers' = IF name = EmployersName THEN cfgEmployers ELSE fEmployers
               /\ fPath' = IF name = ExcludeFileName THEN excludePath ELSE fPath
               /\ IF ValidationAborts(err)
                    THEN /\ result' = ErrResult(name, err)
                         /\ pc' = "done"
                         /\ i' = i
                    ELSE /\ i' = i + 1
                         /\ UNCHANGED <<pc, result>>
  /\ UNCHANGED <<genVars, matchVars, storeVars, sanVars, logger, input, steps, aiEnabled, aiReason, disabledWith, aiDisableCalls, earlierRuns, aiConfig, ignoreApplied, cfgEmployers, excludePath,
                 fAssessments, file, fileOps, v, j, approved, applyLog, stepsLog, evalLog>>

\* Run: every enabled filter validated, the second loop starts.
ValidateDone ==
  /\ pc = "validate"
  /\ i > Len(steps)
  /\ pc' = "apply"
  /\ i' = 1
  /\ UNCHANGED <<genVars, matchVars, storeVars, sanVars, logger, input, steps, aiEnabled, aiReason, disabledWith, aiDisableCalls, earlierRuns, aiConfig, ignoreApplied, cfgEmployers, excludePath,
                 fEmployers, fPath, fAssessments, file, fileOps, v, j, approved,
                 result, validateLog, applyLog, stepsLog, evalLog>>

\* Run, second loop: a disabled filter is skipped.
ApplyDisabled ==
  /\ pc = "apply"
  /\ i <= Len(steps)
  /\ ~IsEnabled(RangeAt(steps, i))
  /\ i' = i + 1
  /\ UNCHANGED <<genVars, matchVars, storeVars, sanVars, logger, input, steps, aiEnabled, aiReason, disabledWith, aiDisableCalls, earlierRuns, aiConfig, ignoreApplied, cfgEmployers, excludePath,
                 fEmployers, fPath, fAssessments, file, fileOps, v, pc, j, approved,
                 result, validateLog, applyLog, stepsLog, evalLog>>

\* Run, second loop, the part after step.Apply returned r for filter name,
\* which was given the collection before.
AfterApply(name, before, r) ==
  IF ApplyAborts(r.err)
    THEN /\ result' = ErrResult(name, r.err)
         /\ pc' = "done"
         /\ v' = r.items
         /\ UNCHANGED <<i, stepsLog>>
    ELSE /\ stepsLog' = Append(stepsLog,
                          [name |-> name, initial |-> r.step.initial,
                           dropped |-> r.step.dropped, left |-> r.step.left,
                           in |-> before, out |-> r.items])
         /\ v' = r.items
         /\ i' = i + 1
         /\ pc' = "apply"
         /\ UNCHANGED result

\* Run, second loop, one iteration on one of the filters of steps.go.
ApplyStep ==
  /\ pc = "apply"
  /\ i <= Len(steps)
  /\ IsEnabled(RangeAt(steps, i))
  /\ RangeAt(steps, i) # AIFitName
  /\ \E neg \in NegotiationOutcomes :
       LET name == RangeAt(steps, i)
           r == CASE name = WithTestName -> withTestApply(v)
                  [] name = AppliedHistoryName -> appliedHistoryApply(v, ignoreApplied, neg)
                  [] name = EmployersName -> employersApply(v, fEmployers)
                  [] name = ExcludeFileName -> excludeFileApply(v, fPath, file)
           targets == CASE name = AppliedHistoryName /\ ~ignoreApplied /\ neg.err = "" ->
                             neg.ids
                        [] name = ExcludeFileName /\ fPath # "" ->
                             VacanciesIDs(GetExludedVacanciesFromFile(file).items)
                        [] OTHER -> <<>>
       IN /\ applyLog' = Append(applyLog, [name |-> name, err |-> r.err, targets |-> targets])
          /\ AfterApply(name, v, r)
          /\ fileOps' = IF name = ExcludeFileName /\ fPath # ""
                          THEN [fileOps EXCEPT !.reads = @ + 1] ELSE fileOps
  /\ UNCHANGED <<genVars, matchVars, storeVars, sanVars, logger, input, steps, aiEnabled, aiReason, disabledWith, aiDisableCalls, earlierRuns, aiConfig, ignoreApplied, cfgEmployers, excludePath,
                 fEmployers, fPath, fAssessments, file, j, approved, validateLog, evalLog>>

\* ------------------------------------------------------------------------
\* The AI-fit filter
\* ------------------------------------------------------------------------
\* An assessment attached without the raw text of the provider.
AttachAssessmentNoRaw(va, out) ==
  [va EXCEPT !.ai = [present |-> TRUE, fit |-> out.fit, score |-> out.score,
                     reason |-> out.reason, message |-> out.message,
                     raw |-> "", error |-> ""]]

\* The AIAssessment attached to an approved (or, before it is written to the
\* exclude file, to a rejected) vacancy: the five fields of the assessment.
AttachAssessment(va, out) ==
  [va EXCEPT !.ai = [present |-> TRUE, fit |-> out.fit, score |-> out.score,
                     reason |-> out.reason, message |-> out.message,
                     raw |-> out.raw, error |-> ""]]

\* The AIAssessment attached when Evaluate failed: the error string alone.
AttachError(va, err) ==
  [va EXCEPT !.ai = [present |-> TRUE, fit |-> FALSE, score |-> 0, reason |-> "",
                     message |-> "", raw |-> "", error |-> err]]

\* Client.GetVacancy: the detailed record of the vacancy.
GetVacancy(va) == [va EXCEPT !.detailed = TRUE, !.ai = NoAI]

\* The record handed to appendToExcludeFile for a rejected vacancy: the
\* assessment is attached to the detailed record before the fit is tested.
RejectedRecord(detailed, out) == AttachAssessment(detailed, out)

\* An iteration that drops the vacancy when Evaluate fails.
EvaluateVacancyFailClosed(va, fetched, out) ==
  IF ~fetched \/ out.err # ""
    THEN [called |-> fetched, kept |-> <<>>, rejected |-> <<>>, assessed |-> FALSE]
  ELSE IF ~out.fit
    THEN [called |-> TRUE, kept |-> <<>>,
          rejected |-> <<RejectedRecord(GetVacancy(va), out)>>, assessed |-> FALSE]
  ELSE [called |-> TRUE, kept |-> <<AttachAssessment(GetVacancy(va), out)>>,
        rejected |-> <<>>, assessed |-> TRUE]

\* An iteration that evaluates the record of the search result when the
\* detailed one could not be fetched.
EvaluateVacancyUnfetched(va, fetched, out) ==
  LET detailed == IF fetched THEN GetVacancy(va) ELSE va
  IN IF out.err # ""
       THEN [called |-> TRUE, kept |-> <<AttachError(detailed, out.err)>>,
             rejected |-> <<>>, assessed |-> FALSE]
     ELSE IF ~out.fit
       THEN [called |-> TRUE, kept |-> <<>>,
             rejected |-> <<RejectedRecord(detailed, out)>>, assessed |-> FALSE]
     ELSE [called |-> TRUE, kept |-> <<AttachAssessment(detailed, out)>>,
           rejected |-> <<>>, assessed |-> TRUE]

\* One iteration of the loop of evaluateVacanciesWithMatcher on vacancy va,
\* where fetched tells whether GetVacancy succeeded and out is what
\* Matcher.Evaluate returns if it is called.  kept: what is appended to
\* approved; rejected: what is handed to appendToExcludeFile.
EvaluateVacancy(va, fetched, out) ==
  LET detailed == GetVacancy(va)
  IN IF ~fetched
       THEN [called |-> FALSE, kept |-> <<>>, rejected |-> <<>>, assessed |-> FALSE]
     ELSE IF out.err # ""
       THEN [called |-> TRUE, kept |-> <<AttachError(detailed, out.err)>>,
             rejected |-> <<>>, assessed |-> FALSE]
     ELSE IF ~out.fit
       THEN [called |-> TRUE, kept |-> <<>>,
             rejected |-> <<RejectedRecord(detailed, out)>>, assessed |-> FALSE]
     ELSE [called |-> TRUE, kept |-> <<AttachAssessment(detailed, out)>>,
           rejected |-> <<>>, assessed |-> TRUE]

\* aiFitFilter.appendToExcludeFile for the rejected vacancies (none or one):
\* the file and the counters of its reads and writes afterwards, and the error.
appendToExcludeFile(f, ops, path, rejected) ==
  IF rejected = <<>> \/ path = ""
    THEN [file |-> f, ops |-> ops, err |-> ""]
  ELSE LET excluded == GetExludedVacanciesFromFile(f)
           read == [ops EXCEPT !.reads = @ + 1]
       IN IF excluded.err # ""
            THEN [file |-> f, ops |-> read, err |-> "load excluded vacancies"]
          ELSE LET toAppend == ToExcluded(rejected, ExcludeActorAI, rejected[1].ai.reason)
                   w == ToFile(f, excluded.items \o toAppend)
               IN IF w.err # ""
                    THEN [file |-> f, ops |-> read, err |-> "write excluded vacancies"]
                    ELSE [file |-> w.file, ops |-> [read EXCEPT !.writes = @ + 1],
                          err |-> ""]

\* aiFitFilter.Apply, first part: the resume is fetched; a failure ends the
\* stage with an error, otherwise the loop over the vacancies starts.
AIApplyBegin ==
  /\ pc = "apply"
  /\ i <= Len(steps)
  /\ IsEnabled(RangeAt(steps, i))
  /\ RangeAt(steps, i) = AIFitName
  /\ \E resumeOK \in BOOLEAN :
       IF ~resumeOK
         THEN /\ applyLog' = Append(applyLog, [name |-> AIFitName, err |-> "get resume details", targets |-> <<>>])
              /\ AfterApply(AIFitName, v, Applied(v, Step(0, 0, 0), "get resume details"))
              /\ UNCHANGED <<j, approved>>
         ELSE /\ applyLog' = Append(applyLog, [name |-> AIFitName, err |-> "", targets |-> <<>>])
              /\ pc' = "ai_loop"
              /\ j' = 1
              /\ approved' = <<>>
              /\ UNCHANGED <<v, i, result, stepsLog>>
  /\ UNCHANGED <<genVars, matchVars, storeVars, sanVars, logger, input, steps, aiEnabled, aiReason, disabledWith, aiDisableCalls, earlierRuns, aiConfig, ignoreApplied, cfgEmployers, excludePath,
                 fEmployers, fPath, fAssessments, file, fileOps, validateLog, evalLog>>

\* evaluateVacanciesWithMatcher, one iteration of the loop over vacancies.Items.
AIEvaluate ==
  /\ pc = "ai_loop"
  /\ logger
  /\ j <= Len(v)
  /\ \E fetched \in BOOLEAN, out \in MatcherOutcomes :
       LET va == RangeAt(v, j)
           r == EvaluateVacancy(va, fetched, out)
           a == appendToExcludeFile(file, fileOps, excludePath, r.rejected)
       IN /\ approved' = approved \o r.kept
          /\ file' = a.file
          /\ fileOps' = a.ops
          /\ fAssessments' = IF r.assessed THEN fAssessments \cup {va.id} ELSE fAssessments
          /\ evalLog' = Append(evalLog,
                          [id |-> va.id, fetched |-> fetched, called |-> r.called,
                           out |-> IF r.called THEN out ELSE EvaluateError,
                           appendErr |-> a.err])
  /\ j' = j + 1
  /\ UNCHANGED <<genVars, matchVars, storeVars, sanVars, logger, input, steps, aiEnabled, aiReason, disabledWith, aiDisableCalls, earlierRuns, aiConfig, ignoreApplied, cfgEmployers, excludePath,
                 fEmployers, fPath, v, pc, i, result, validateLog, applyLog, stepsLog>>

\* evaluateVacanciesWithMatcher after the loop and the end of Apply: the
\* approved vacancies become the collection, the Step is computed from the
\* sizes before and after.
AIApplyEnd ==
  /\ pc = "ai_loop"
  /\ logger
  /\ j > Len(v)
  /\ AfterApply(AIFitName, v,
       Applied(approved, Step(Len(v), Len(v) - Len(approved), Len(approved)), ""))
  /\ UNCHANGED <<genVars, matchVars, storeVars, sanVars, logger, input, steps, aiEnabled, aiReason, disabledWith, aiDisableCalls, earlierRuns, aiConfig, ignoreApplied, cfgEmployers, excludePath,
                 fEmployers, fPath, fAssessments, file, fileOps, j, approved,
                 validateLog, applyLog, evalLog>>

\* evaluateVacanciesWithMatcher with a nil Logger: every iteration of the
\* loop logs its outcome (fetch failed, evaluation failed, rejected,
\* approved) before it keeps or appends anything, and the end of the loop
\* logs the totals; f.deps.Logger is dereferenced without a test for nil.
AIPanic ==
  /\ pc = "ai_loop"
  /\ ~logger
  /\ result' = PanicResult(AIFitName)
  /\ pc' = "done"
  /\ UNCHANGED <<genVars, matchVars, storeVars, sanVars, logger, input, steps, aiEnabled, aiReason, disabledWith, aiDisableCalls, earlierRuns, aiConfig, ignoreApplied,
                 cfgEmployers, excludePath, fEmployers, fPath, fAssessments, file, fileOps,
                 v, i, j, approved, validateLog, applyLog, stepsLog, evalLog>>

\* Run: the second loop is over, Run returns the collection.
RunReturn ==
  /\ pc = "apply"
  /\ i > Len(steps)
  /\ result' = OkResult(v)
  /\ pc' = "done"
  /\ UNCHANGED <<genVars, matchVars, storeVars, sanVars, logger, input, steps, aiEnabled, aiReason, disabledWith, aiDisableCalls, earlierRuns, aiConfig, ignoreApplied, cfgEmployers, excludePath,
                 fEmployers, fPath, fAssessments, file, fileOps, v, i, j, approved,
                 validateLog, applyLog, stepsLog, evalLog>>

Next ==
  \/ ValidateStep
  \/ ValidateDone
  \/ ApplyDisabled
  \/ ApplyStep
  \/ AIApplyBegin
  \/ AIEvaluate
  \/ AIApplyEnd
  \/ AIPanic
  \/ RunReturn

Spec == Init /\ [][Next]_vars
\* ------------------------------------------------------------------------
\* Properties of filtering.Run
\* ------------------------------------------------------------------------
\* The enabled filters of the list, in the order of the list.
EnabledSteps == SelectSeq(steps, IsEnabled)

IsPrefix(s, t) == Len(s) <= Len(t) /\ \A k \in 1..Len(s) : s[k] = t[k]

ApplyNames == [k \in 1..Len(applyLog) |-> applyLog[k].name]

\* The filter switched off by configuration.
SwitchedOff(name) == name = AIFitName /\ ~aiEnabled

\* The collection the next Apply receives: what the last Apply returned.
Current == IF stepsLog = <<>> THEN input ELSE stepsLog[Len(stepsLog)].out

RECURSIVE SumDropped(_)
SumDropped(log) == IF log = <<>> THEN 0 ELSE Head(log).dropped + SumDropped(Tail(log))

IDs(items) == { items[k].id : k \in 1..Len(items) }

\* C1: validation fails fast.  Once the Validate of an enabled filter has
\* returned an error, that Validate is the last one invoked, Run has returned
\* that error under the filter's name and without a collection, and no Apply
\* of any filter has been or will be invoked; and a list holding an enabled
\* filter with an invalid configuration never reaches the second loop.
C1_ValidationFailFast ==
  /\ \A k \in 1..Len(validateLog) :
       Validate(validateLog[k]) # "" =>
         /\ k = Len(validateLog)
         /\ pc = "done"
         /\ result = ErrResult(validateLog[k], Validate(validateLog[k]))
         /\ ~result.hasColl
         /\ applyLog = <<>> /\ stepsLog = <<>> /\ evalLog = <<>>
         /\ v = input
  /\ (\E k \in 1..Len(steps) : IsEnabled(steps[k]) /\ Validate(steps[k]) # "") =>
       /\ applyLog = <<>>
       /\ pc \in {"validate", "done"}
       /\ pc = "done" => result.status = "err"

\* C1, its case: the AI filter fails validation after four filters have
\* passed theirs, and Run has returned.
C1_Witness ==
  /\ pc = "done"
  /\ result.status = "err"
  /\ result.name = AIFitName
  /\ Len(validateLog) = 5
  /\ Len(input) = MaxVac

\* C2: an Apply error aborts the run.  The Apply that returned an error is
\* the last Apply invoked, Run has returned an error that carries the name of
\* that filter and no collection; and while Apply succeeds, every filter
\* receives exactly the collection the previous one returned, the first one
\* the collection Run was given, and Run returns the last one's.
C2_ApplyErrorAborts ==
  /\ \A k \in 1..Len(applyLog) :
       applyLog[k].err # "" =>
         /\ k = Len(applyLog)
         /\ pc = "done"
         /\ result = ErrResult(applyLog[k].name, applyLog[k].err)
         /\ ~result.hasColl
         /\ Len(stepsLog) = k - 1
  /\ \A k \in 1..Len(stepsLog) :
       stepsLog[k].in = IF k = 1 THEN input ELSE stepsLog[k - 1].out
  /\ pc \in {"apply", "ai_loop"} => v = Current
  /\ result.status = "ok" => result.coll = Current

\* C2, its case: the second filter's Apply failed while later enabled filters
\* were still to run, and the first had removed a vacancy.
C2_Witness ==
  /\ pc = "done"
  /\ Len(applyLog) = 2
  /\ applyLog[2].err # ""
  /\ Len(EnabledSteps) > 2
  /\ stepsLog[1].dropped > 0

\* C3: the collection never grows.  Every Step has left <= initial and
\* initial = dropped + left, with initial and left the sizes of the collection
\* received and returned; a stage's initial is the previous stage's left (the
\* size of Run's input for the first); no stage returns a vacancy it did not
\* receive; and the collection Run returns has the size of its input minus
\* the sum of dropped over the stages.
C3_CollectionNeverGrows ==
  /\ Len(v) <= Len(input)
  /\ Len(approved) <= Len(input)
  /\ \A k \in 1..Len(stepsLog) :
       LET s == stepsLog[k]
       IN /\ s.left <= s.initial
          /\ s.initial = s.dropped + s.left
          /\ s.initial = Len(s.in)
          /\ s.left = Len(s.out)
          /\ s.initial = IF k = 1 THEN Len(input) ELSE stepsLog[k - 1].left
          /\ IDs(s.out) \subseteq IDs(s.in)
  /\ result.status = "ok" =>
       Len(result.coll) = Len(input) - SumDropped(stepsLog)

\* C3, its case: a run of five stages that returned after two different
\* stages had each dropped a vacancy.
C3_Witness ==
  /\ result.status = "ok"
  /\ Len(stepsLog) = 5
  /\ \E a, b \in 1..5 : a < b /\ stepsLog[a].dropped > 0 /\ stepsLog[b].dropped > 0
  /\ Len(result.coll) = Len(input) - 2

\* C4: a filter that is switched off takes part in neither phase.  Its
\* Validate and its Apply are never invoked, it reports no Step, evaluates no
\* vacancy and holds no assessment, and no error Run returns is its own, even
\* when its configuration is invalid.
C4_DisabledFilterSkipped ==
  \A k \in 1..Len(steps) :
    SwitchedOff(steps[k]) =>
      /\ \A m \in 1..Len(validateLog) : validateLog[m] # steps[k]
      /\ \A m \in 1..Len(applyLog) : applyLog[m].name # steps[k]
      /\ \A m \in 1..Len(stepsLog) : stepsLog[m].name # steps[k]
      /\ evalLog = <<>>
      /\ fAssessments = {}
      /\ result.name # steps[k]
      /\ pc # "ai_loop"
      /\ (pc = "done" /\ result.status = "err") =>
           (applyLog # <<>> /\ applyLog[Len(applyLog)].err # "")

\* C4, its case: the AI filter is switched off with a blank model, and the
\* run over the other four filters has returned a collection.
C4_Witness ==
  /\ ~aiEnabled
  /\ aiConfig = "blank_model"
  /\ Len(steps) = 5
  /\ result.status = "ok"
  /\ Len(stepsLog) = 4
  /\ Len(validateLog) = 4

\* ------------------------------------------------------------------------
\* Properties of the AI-fit stage
\* ------------------------------------------------------------------------
\* The Steps the AI filter has reported (none or one).
AIStage == { k \in 1..Len(stepsLog) : stepsLog[k].name = AIFitName }

\* The collection the AI filter's Apply was given.
AIInput ==
  IF pc = "ai_loop" THEN v
  ELSE IF AIStage # {} THEN stepsLog[CHOOSE k \in AIStage : TRUE].in
  ELSE <<>>

\* The vacancy with this ID among the approved ones carries this assessment.
ApprovedWith(id, assessment) ==
  \E m \in 1..Len(approved) :
    approved[m].id = id /\ approved[m].detailed /\ approved[m].ai = assessment

\* C5: execution is strictly sequential.  Validate and Apply are invoked on
\* the enabled filters in the order of the list, the same in both phases, no
\* Apply before every Validate has returned; every Apply but the last invoked
\* has returned, and the last is in progress only inside the AI loop (or
\* was ended there by a panic); the AI loop goes through the vacancies of
\* the collection it was given in their order, one per iteration, and hands
\* no vacancy to the Matcher twice.
C5_StrictlySequential ==
  /\ IsPrefix(validateLog, EnabledSteps)
  /\ IsPrefix(ApplyNames, EnabledSteps)
  /\ applyLog # <<>> => validateLog = EnabledSteps
  /\ LET returned == Len(stepsLog)
                       + (IF applyLog # <<>> /\ applyLog[Len(applyLog)].err # ""
                            THEN 1 ELSE 0)
     IN Len(applyLog) - returned =
          IF pc = "ai_loop" \/ result.status = "panic" THEN 1 ELSE 0
  /\ pc = "ai_loop" => ApplyNames[Len(applyLog)] = AIFitName
  /\ Len(evalLog) <= Len(AIInput)
  /\ \A k \in 1..Len(evalLog) : evalLog[k].id = AIInput[k].id
  /\ \A k, m \in 1..Len(evalLog) : k < m => evalLog[k].id # evalLog[m].id
  /\ pc = "ai_loop" => Len(evalLog) = j - 1

\* C5, its case: a run of three or more stages has returned, and the Matcher
\* was called for two vacancies.
C5_Witness ==
  /\ result.status = "ok"
  /\ Len(stepsLog) >= 3
  /\ Len(evalLog) = 2
  /\ evalLog[1].called /\ evalLog[2].called

\* C6: the AI stage fails open.  A vacancy for which Evaluate returned an
\* error is among the approved ones with an assessment that holds the error
\* string alone; the loop goes on to the end of the collection, the stage
\* returns the approved vacancies without an error, and Run returns no error
\* under the AI filter's name once the loop has run.
C6_FailOpenPerVacancy ==
  /\ \A k \in 1..Len(evalLog) :
       (evalLog[k].called /\ evalLog[k].out.err # "") =>
         ApprovedWith(evalLog[k].id,
                      [NoAI EXCEPT !.present = TRUE, !.error = evalLog[k].out.err])
  /\ \A k \in AIStage :
       /\ stepsLog[k].out = approved
       /\ Len(evalLog) = Len(stepsLog[k].in)
  /\ evalLog # <<>> =>
       /\ \A k \in 1..Len(applyLog) :
            applyLog[k].name = AIFitName => applyLog[k].err = ""
       /\ result.name # AIFitName
  /\ (pc = "done" /\ evalLog # <<>>) => AIStage # {}

\* C6, its case: Evaluate failed for the first vacancy, the second one was
\* evaluated after it, and Run has returned both.
C6_Witness ==
  /\ result.status = "ok"
  /\ Len(evalLog) = 2
  /\ evalLog[1].called /\ evalLog[1].out.err # ""
  /\ evalLog[2].called /\ evalLog[2].out.err = "" /\ evalLog[2].out.fit
  /\ Len(approved) = 2

\* C7: a vacancy whose detailed record could not be fetched is not handed to
\* the Matcher and is not among the approved ones; the stage returns without
\* an error, and its Step counts the vacancy: dropped is the size before minus
\* the size after, and at least the number of failed fetches.
C7_FetchFailureDrops ==
  LET unfetched == { evalLog[k].id : k \in { m \in 1..Len(evalLog) : ~evalLog[m].fetched } }
  IN /\ \A k \in 1..Len(evalLog) :
          ~evalLog[k].fetched =>
            /\ ~evalLog[k].called
            /\ evalLog[k].id \notin IDs(approved)
            /\ evalLog[k].id \notin fAssessments
     /\ \A k \in AIStage :
          /\ stepsLog[k].dropped = Len(stepsLog[k].in) - Len(stepsLog[k].out)
          /\ stepsLog[k].dropped >= Cardinality(unfetched)
          /\ IDs(stepsLog[k].out) \cap unfetched = {}
     /\ unfetched # {} =>
          /\ \A k \in 1..Len(applyLog) :
               applyLog[k].name = AIFitName => applyLog[k].err = ""
          /\ result.name # AIFitName
          /\ pc = "done" => AIStage # {}

\* C7, its case: the fetch failed for the first vacancy, the second one was
\* fetched and approved, and the stage has reported one vacancy dropped.
C7_Witness ==
  /\ result.status = "ok"
  /\ Len(evalLog) = 2
  /\ ~evalLog[1].fetched
  /\ evalLog[2].fetched /\ evalLog[2].called
  /\ \E k \in AIStage : stepsLog[k].dropped = 1 /\ stepsLog[k].left = 1

\* C8: a vacancy evaluated with fit = true is among the approved ones, as
\* the detailed record with fit, score, reason, message and raw text of the
\* assessment attached, and the filter holds its assessment; a vacancy
\* evaluated with fit = false is not among them.
C8_FitDecides ==
  \A k \in 1..Len(evalLog) :
    LET e == evalLog[k]
    IN (e.called /\ e.out.err = "") =>
         IF e.out.fit
           THEN /\ ApprovedWith(e.id,
                     [present |-> TRUE, fit |-> TRUE, score |-> e.out.score,
                      reason |-> e.out.reason, message |-> e.out.message,
                      raw |-> e.out.raw, error |-> ""])
                /\ e.id \in fAssessments
                /\ \A n \in AIStage : e.id \in IDs(stepsLog[n].out)
           ELSE /\ e.id \notin IDs(approved)
                /\ e.id \notin fAssessments
                /\ \A n \in AIStage : e.id \notin IDs(stepsLog[n].out)

\* C8, its case: of two vacancies evaluated, one is a fit and is returned,
\* the other is not and is gone.
C8_Witness ==
  /\ result.status = "ok"
  /\ Len(evalLog) = 2
  /\ evalLog[1].called /\ evalLog[1].out.err = "" /\ ~evalLog[1].out.fit
  /\ evalLog[2].called /\ evalLog[2].out.err = "" /\ evalLog[2].out.fit
  /\ \E k \in AIStage : IDs(stepsLog[k].out) = {evalLog[2].id}

\* The step is an iteration of the AI loop in which Evaluate returned an
\* assessment with fit = false.
RejectedNow ==
  /\ Len(evalLog') = Len(evalLog) + 1
  /\ evalLog'[Len(evalLog')].called
  /\ evalLog'[Len(evalLog')].out.err = ""
  /\ ~evalLog'[Len(evalLog')].out.fit

\* The entry the exclude file gets for the vacancy rejected in this step:
\* actor AI, the reason of the provider or the fallback reason.
RejectedEntry ==
  LET e == evalLog'[Len(evalLog')]
  IN ExcludedVacancy(e.id, ExcludeActorAI,
       IF e.out.reason = "" THEN excludeReasonAIFallback ELSE e.out.reason)

\* The entries an exclude file holds.
Listed(f) == jsonDecode(f.content).items

defaultMaxRetries == 3
retryInitialDelay == 100
retryMaxDelay == 3000
maxQuotaDelay == 180000
Second == 1000
StatusRequestTimeout == 408
StatusTooManyRequests == 429

\* What models.GenerateContent returns: a response (kind "ok") with its
\* textual parts, or an error.  An API error carries its code and status,
\* whether its message speaks of quota, and the retryDelay of its details
\* (hint, -1 when the details hold none).
Response(parts) ==
  [kind |-> "ok", parts |-> parts, code |-> 0, status |-> "", quotaMsg |-> FALSE, hint |-> -1]
PlainError(kind) ==
  [kind |-> kind, parts |-> <<>>, code |-> 0, status |-> "", quotaMsg |-> FALSE, hint |-> -1]
APIError(code, status, quotaMsg, hint) ==
  [kind |-> "api", parts |-> <<>>, code |-> code, status |-> status,
   quotaMsg |-> quotaMsg, hint |-> hint]

ProviderOutcomes ==
  { Response(<<"a">>), Response(<<" ", "a", "b">>), Response(<<>>), Response(<<" ">>),
    PlainError("canceled"), PlainError("deadline"), PlainError("timeout"),
    PlainError("other"),
    APIError(500, "INTERNAL", FALSE, -1),
    APIError(StatusRequestTimeout, "", FALSE, -1),
    APIError(400, "UNAVAILABLE", FALSE, -1),
    APIError(400, "INVALID_ARGUMENT", FALSE, -1),
    APIError(StatusTooManyRequests, "RESOURCE_EXHAUSTED", FALSE, -1),
    APIError(StatusTooManyRequests, "RESOURCE_EXHAUSTED", FALSE, 2000),
    APIError(StatusTooManyRequests, "RESOURCE_EXHAUSTED", FALSE, 200000),
    APIError(StatusTooManyRequests, "RESOURCE_EXHAUSTED", FALSE, maxQuotaDelay),
    APIError(500, "INTERNAL", FALSE, 2000),
    APIError(503, "UNAVAILABLE", TRUE, 200000) }

\* strings.TrimSpace on a textual part: " " stands for any blank text.
TrimSpace(text) == IF text = " " THEN "" ELSE text

\* An extractText that joins the parts as they are.
extractTextUntrimmed(parts) == parts

\* extractText: the non-blank parts, trimmed, in order (joined by newlines;
\* the empty sequence is the empty string).
RECURSIVE extractText(_)
extractText(parts) ==
  IF parts = <<>> THEN <<>>
  ELSE (IF TrimSpace(Head(parts)) = "" THEN <<>> ELSE <<TrimSpace(Head(parts))>>)
       \o extractText(Tail(parts))

\* generateWithModel: the number of attempts for a configured maxRetries.
\* A constructor whose default allows one attempt more.
AttemptsOneMore(maxRetries) == IF maxRetries <= 0 THEN defaultMaxRetries + 1 ELSE maxRetries

Attempts(maxRetries) == IF maxRetries <= 0 THEN defaultMaxRetries ELSE maxRetries

\* isQuotaAPIError
isQuotaAPIError(err) ==
  \/ err.code = StatusTooManyRequests
  \/ err.status = "RESOURCE_EXHAUSTED"
  \/ err.quotaMsg

\* A retryDelayFromAPIError without the margin of one second.
retryDelayNoMargin(err) ==
  IF ~isQuotaAPIError(err) \/ err.hint < 0 \/ err.hint >= maxQuotaDelay
    THEN <<0, FALSE>>
    ELSE <<err.hint, TRUE>>

\* retryDelayFromAPIError: <<delay, ok>>
retryDelayFromAPIError(err) ==
  IF ~isQuotaAPIError(err) THEN <<0, FALSE>>
  ELSE IF err.hint < 0 THEN <<0, FALSE>>
  ELSE IF err.hint >= maxQuotaDelay THEN <<0, FALSE>>
  ELSE <<err.hint + Second, TRUE>>

NoRetry == [retry |-> FALSE, delay |-> 0, quota |-> FALSE]

\* A classifyRetry that tests for a timeout first: a deadline error reports
\* Timeout() and is retried.
classifyRetryTimeoutFirst(err) ==
  CASE err.kind \in {"timeout", "deadline"} -> [retry |-> TRUE, delay |-> 0, quota |-> FALSE]
    [] err.kind = "api" ->
         IF retryDelayFromAPIError(err)[2]
           THEN [retry |-> TRUE, delay |-> retryDelayFromAPIError(err)[1], quota |-> TRUE]
         ELSE IF \/ err.code = StatusRequestTimeout
                 \/ (err.code >= 500 /\ err.code < 600)
                 \/ err.status = "UNAVAILABLE"
           THEN [retry |-> TRUE, delay |-> 0, quota |-> FALSE]
         ELSE NoRetry
    [] OTHER -> NoRetry

\* A classifyRetry whose 5xx range starts above 500.
classifyRetryAbove500(err) ==
  CASE err.kind \in {"ok", "canceled", "deadline"} -> NoRetry
    [] err.kind = "timeout" -> [retry |-> TRUE, delay |-> 0, quota |-> FALSE]
    [] err.kind = "api" ->
         IF retryDelayFromAPIError(err)[2]
           THEN [retry |-> TRUE, delay |-> retryDelayFromAPIError(err)[1], quota |-> TRUE]
         ELSE IF \/ err.code = StatusRequestTimeout
                 \/ (err.code > 500 /\ err.code < 600)
                 \/ err.status = "UNAVAILABLE"
           THEN [retry |-> TRUE, delay |-> 0, quota |-> FALSE]
         ELSE NoRetry
    [] OTHER -> NoRetry

\* A classifyRetry that retries nothing.
classifyRetryNever(err) == [retry |-> FALSE, delay |-> 0, quota |-> FALSE]

\* classifyRetry
classifyRetry(err) ==
  CASE err.kind = "ok" -> NoRetry
    [] err.kind \in {"canceled", "deadline"} -> NoRetry
    [] err.kind = "timeout" -> [retry |-> TRUE, delay |-> 0, quota |-> FALSE]
    [] err.kind = "api" ->
         IF retryDelayFromAPIError(err)[2]
           THEN [retry |-> TRUE, delay |-> retryDelayFromAPIError(err)[1], quota |-> TRUE]
         ELSE IF \/ err.code = StatusRequestTimeout
                 \/ (err.code >= 500 /\ err.code < 600)
                 \/ err.status = "UNAVAILABLE"
           THEN [retry |-> TRUE, delay |-> 0, quota |-> FALSE]
         ELSE NoRetry
    [] OTHER -> NoRetry

\* A minDuration that returns its first argument.
minDurationFirst(a, b) == a

\* minDuration
minDuration(a, b) == IF a < b THEN a ELSE b

GenOk(text) == [status |-> "ok", text |-> text, err |-> ""]
GenErr(err) == [status |-> "err", text |-> <<>>, err |-> err]

\* The pipeline is not running while the generator is exercised.
PipeIdle ==
  /\ steps = <<>>
  /\ logger = TRUE
  /\ aiReason = ""
  /\ disabledWith = NeverDisabled
  /\ aiDisableCalls = 0
  /\ earlierRuns = <<>>
  /\ aiEnabled = FALSE
  /\ aiConfig = "ok"
  /\ ignoreApplied = FALSE
  /\ cfgEmployers = <<>>
  /\ excludePath = ""
  /\ fEmployers = <<>>
  /\ fPath = ""
  /\ fAssessments = {}
  /\ file = MissingFile
  /\ fileOps = [reads |-> 0, writes |-> 0]
  /\ v = <<>>
  /\ input = <<>>
  /\ pc = "idle"
  /\ i = 0
  /\ j = 0
  /\ approved = <<>>
  /\ result = NoResult
  /\ validateLog = <<>>
  /\ applyLog = <<>>
  /\ stepsLog = <<>>
  /\ evalLog = <<>>

\* A Generator with any maxRetries (the field is also set directly, as the
\* tests do), about to run generateWithModel.
GenInit ==
  /\ PipeIdle
  /\ MatchIdle
  /\ StoreIdle
  /\ SanIdle
  /\ gMaxRetries \in -1..MaxRetriesCfg
  /\ gpc = "start"
  /\ attempt = 0
  /\ delay = 0
  /\ decision = NoRetry
  /\ ctxDone = FALSE
  /\ calls = 0
  /\ waits = <<>>
  /\ outs = <<>>
  /\ genResult = [status |-> "none", text |-> <<>>, err |-> ""]

\* generateWithModel up to the loop: attempts, delay, attempt := 1.  The
\* position "exhausted" is the statement after the loop.
GenStart ==
  /\ gpc = "start"
  /\ delay' = retryInitialDelay
  /\ attempt' = 1
  /\ gpc' = IF 1 <= Attempts(gMaxRetries) THEN "call" ELSE "exhausted"
  /\ UNCHANGED <<pipeVars, matchVars, storeVars, sanVars, gMaxRetries, decision, ctxDone, calls, waits, outs, genResult>>

\* A loop that takes no attempt for the last one.
LastAttemptNever(n, attempts) == FALSE

\* generateWithModel: `attempt == attempts`, no attempt is left.
LastAttempt(n, attempts) == n = attempts

\* One attempt: the call of models.GenerateContent, which returns one of
\* outcomes, and what follows it up to the return or to the call of waitFor.
GenCallWith(outcomes) ==
  /\ gpc = "call"
  /\ calls' = calls + 1
  /\ \E out \in outcomes :
       /\ outs' = Append(outs, out)
       /\ IF out.kind = "ok"
            THEN /\ genResult' = IF extractText(out.parts) = <<>>
                                   THEN GenErr("gemini api returned empty response")
                                   ELSE GenOk(extractText(out.parts))
                 /\ gpc' = "done"
                 /\ UNCHANGED <<decision, waits>>
          ELSE IF ctxDone
            THEN /\ genResult' = GenErr("context")
                 /\ gpc' = "done"
                 /\ UNCHANGED <<decision, waits>>
          ELSE IF ~classifyRetry(out).retry \/ LastAttempt(attempt, Attempts(gMaxRetries))
            THEN /\ genResult' = GenErr("generate content")
                 /\ gpc' = "done"
                 /\ UNCHANGED <<decision, waits>>
          ELSE /\ decision' = classifyRetry(out)
               /\ waits' = Append(waits, IF classifyRetry(out).delay > 0
                                           THEN classifyRetry(out).delay ELSE delay)
               /\ gpc' = "wait"
               /\ UNCHANGED genResult
  /\ UNCHANGED <<pipeVars, matchVars, storeVars, sanVars, gMaxRetries, attempt, delay, ctxDone>>

\* One attempt against a provider that may return anything.
GenCall == GenCallWith(ProviderOutcomes)

\* A wait that sleeps its whole duration whatever happens to ctx.
GenWaitUninterruptible ==
  /\ gpc = "wait"
  /\ delay' = IF decision.delay = 0 THEN minDuration(delay * 2, retryMaxDelay) ELSE delay
  /\ attempt' = attempt + 1
  /\ gpc' = IF attempt + 1 <= Attempts(gMaxRetries) THEN "call" ELSE "exhausted"
  /\ UNCHANGED <<pipeVars, matchVars, storeVars, sanVars, gMaxRetries, decision, ctxDone, calls, waits, outs, genResult>>

\* waitFor: the sleep ends before ctx is done (the select blocks on both
\* channels and wakes on the first that is ready; every wait is longer than
\* zero); the backoff delay doubles unless the wait came from the provider,
\* and the next attempt starts.
GenWaitElapsed ==
  /\ gpc = "wait"
  /\ ~ctxDone
  /\ delay' = IF decision.delay = 0 THEN minDuration(delay * 2, retryMaxDelay) ELSE delay
  /\ attempt' = attempt + 1
  /\ gpc' = IF attempt + 1 <= Attempts(gMaxRetries) THEN "call" ELSE "exhausted"
  /\ UNCHANGED <<pipeVars, matchVars, storeVars, sanVars, gMaxRetries, decision, ctxDone, calls, waits, outs, genResult>>

\* waitFor: ctx.Done() is selected, generateWithModel returns ctx.Err().
GenWaitCancelled ==
  /\ gpc = "wait"
  /\ ctxDone
  /\ genResult' = GenErr("context")
  /\ gpc' = "done"
  /\ UNCHANGED <<pipeVars, matchVars, storeVars, sanVars, gMaxRetries, attempt, delay, decision, ctxDone, calls, waits, outs>>

\* The caller cancels ctx, or its deadline passes, while Generate runs.
CtxCancel ==
  /\ gpc \in {"call", "wait"}
  /\ ~ctxDone
  /\ ctxDone' = TRUE
  /\ UNCHANGED <<pipeVars, matchVars, storeVars, sanVars, gMaxRetries, gpc, attempt, delay, decision, calls, waits, outs, genResult>>

GenNext ==
  \/ GenStart
  \/ GenCall
  \/ GenWaitElapsed
  \/ GenWaitCancelled
  \/ CtxCancel

GenSpec == GenInit /\ [][GenNext]_vars

\* ------------------------------------------------------------------------
\* Properties of the generator
\* ------------------------------------------------------------------------
\* C10: one call of Generate calls the provider at most as many times as the
\* configured maximum, and at most defaultMaxRetries (3) times when the
\* maximum is unset, zero or negative; every attempt counted is one provider
\* call, and the call has returned once the number is reached.
C10_AttemptsBounded ==
  /\ calls <= (IF gMaxRetries <= 0 THEN defaultMaxRetries ELSE gMaxRetries)
  /\ gMaxRetries <= 0 => calls <= 3
  /\ calls <= attempt
  /\ (gpc = "wait" \/ gpc = "call") =>
       attempt <= (IF gMaxRetries <= 0 THEN defaultMaxRetries ELSE gMaxRetries)

\* C10, its case: with no maximum configured the third provider call failed
\* with a retryable error and Generate returned the error.
C10_Witness ==
  /\ gMaxRetries <= 0
  /\ calls = defaultMaxRetries
  /\ gpc = "done"
  /\ genResult.status = "err"
  /\ Len(waits) = defaultMaxRetries - 1

\* The number of attempts one call of Generate may make.
MaxAttempts == IF gMaxRetries <= 0 THEN defaultMaxRetries ELSE gMaxRetries

LastOut == outs[Len(outs)]

\* The response holds a textual part that is not blank.
HasText(out) == out.kind = "ok" /\ \E k \in 1..Len(out.parts) : out.parts[k] # " "

\* The textual parts of a response that are not blank, in order.
NonBlank(parts) == SelectSeq(parts, LAMBDA t : t # " ")

\* A quota error whose details hold a retry delay below the longest
\* acceptable one.
QuotaHint(out) ==
  /\ out.kind = "api"
  /\ out.code = 429 \/ out.status = "RESOURCE_EXHAUSTED" \/ out.quotaMsg
  /\ out.hint >= 0
  /\ out.hint < maxQuotaDelay

\* An API error with status 408, 5xx or UNAVAILABLE.
TransientStatus(out) ==
  /\ out.kind = "api"
  /\ out.code = 408 \/ (out.code >= 500 /\ out.code <= 599) \/ out.status = "UNAVAILABLE"

\* The errors after which another attempt is made if one is left.
RetryableError(out) == out.kind = "timeout" \/ QuotaHint(out) \/ TransientStatus(out)

\* Call m failed while ctx was done: Generate returned ctx.Err() at once.
CancelledAtCall(m) ==
  /\ m = Len(outs)
  /\ gpc = "done"
  /\ genResult = GenErr("context")
  /\ Len(waits) = m - 1

\* Call m was the last one and Generate returned its error without a wait.
FatalAtCall(m) ==
  /\ m = Len(outs)
  /\ gpc = "done"
  /\ genResult.status = "err"
  /\ calls = m
  /\ Len(waits) = m - 1

\* C11: when Generate has returned and its last provider call gave a text,
\* Generate returned that text without an error, every earlier call failed
\* with a retryable error and was followed by one wait, and the provider was
\* called exactly as many times as there are outcomes, within the maximum;
\* and Generate gives up on a retryable error with attempts left only when
\* ctx is done.  A 500 followed by a success gives the text after two calls.
C11_RetryThenSuccess ==
  /\ (gpc = "done" /\ outs # <<>> /\ HasText(LastOut)) =>
       /\ genResult = GenOk(NonBlank(LastOut.parts))
       /\ calls = Len(outs)
       /\ calls <= MaxAttempts
       /\ Len(waits) = Len(outs) - 1
       /\ \A m \in 1..(Len(outs) - 1) : RetryableError(outs[m])
  /\ (gpc = "done" /\ outs # <<>> /\ RetryableError(LastOut) /\ Len(outs) < MaxAttempts) =>
       ctxDone
  /\ (gpc = "done" /\ Len(outs) = 2 /\ TransientStatus(outs[1]) /\ HasText(outs[2])) =>
       (genResult.status = "ok" /\ calls = 2)

\* C11, its case: a 500 without a hint, then a response with text: Generate
\* has returned the text after two calls.
C11_Witness ==
  /\ gpc = "done"
  /\ Len(outs) = 2
  /\ outs[1].kind = "api" /\ outs[1].code = 500 /\ outs[1].hint < 0
  /\ HasText(outs[2])
  /\ genResult.status = "ok"
  /\ calls = 2

\* C12: when as many provider calls as the maximum have been made and the
\* last one failed, Generate has returned an error, whatever the error is,
\* after exactly that many calls; no wait follows the last attempt and the
\* statement after the loop is never reached.
C12_LastAttemptIsTerminal ==
  /\ (Len(outs) = MaxAttempts /\ LastOut.kind # "ok") =>
       /\ gpc = "done"
       /\ genResult.status = "err"
       /\ calls = MaxAttempts
       /\ Len(waits) = MaxAttempts - 1
  /\ Len(outs) <= MaxAttempts
  /\ calls = Len(outs)
  /\ gpc = "wait" => calls < MaxAttempts
  /\ gpc # "exhausted"

\* C12, its case: with a maximum of two, both calls failed with retryable
\* errors and Generate has returned an error.
C12_Witness ==
  /\ gMaxRetries = 2
  /\ Len(outs) = 2
  /\ RetryableError(outs[1]) /\ RetryableError(outs[2])
  /\ gpc = "done"
  /\ genResult = GenErr("generate content")
  /\ calls = 2

\* C13: an API error whose retry-delay hint is longer than the longest
\* acceptable wait is fatal: the call that returned it is the last one, and
\* Generate has returned an error without a wait after it.
C13_LongHintIsFatal ==
  \A m \in 1..Len(outs) :
    (outs[m].kind = "api" /\ outs[m].hint > maxQuotaDelay) => FatalAtCall(m)

BackoffDelays == {100, 200, 400, 800, 1600, 3000}

C15_CancellationNotRetried ==
  [][ /\ (/\ Len(outs') = Len(outs) + 1
          /\ outs'[Len(outs')].kind # "ok"
          /\ ctxDone \/ outs'[Len(outs')].kind \in {"canceled", "deadline"}) =>
           /\ gpc' = "done"
           /\ genResult'.status = "err"
           /\ ctxDone => genResult' = GenErr("context")
           /\ waits' = waits
      /\ gpc = "done" => UNCHANGED <<calls, waits, outs, genResult>> ]_vars

\* C15, its case: the second call failed with a retryable error after ctx
\* was cancelled, with attempts left, and Generate has returned ctx's error
\* without a second wait.
C15_Witness ==
  /\ gpc = "done"
  /\ ctxDone
  /\ Len(outs) = 2
  /\ RetryableError(outs[2])
  /\ MaxAttempts > 2
  /\ genResult = GenErr("context")
  /\ Len(waits) = 1

\* C16: a wait is interruptible.  When ctx is done while Generate waits
\* before a retry, the only step the wait can take is the return of ctx's
\* error: no attempt starts, no provider call is made, and the backoff delay
\* is not advanced.
C16_WaitInterruptible ==
  [][ (gpc = "wait" /\ ctxDone) =>
        /\ gpc' = "done"
        /\ genResult' = GenErr("context")
        /\ UNCHANGED <<calls, outs, attempt, delay, waits>> ]_vars

\* C16, its case: ctx was cancelled during the wait after the first failed
\* call, with attempts left, and Generate has returned ctx's error after one
\* call.
C16_Witness ==
  /\ gpc = "done"
  /\ ctxDone
  /\ genResult = GenErr("context")
  /\ Len(outs) = 1
  /\ Len(waits) = 1
  /\ calls = 1
  /\ MaxAttempts > 1

\* The backoff delay after n waits that were not given by the provider.
RECURSIVE Backoff(_)
Backoff(n) == IF n = 0 THEN 100 ELSE IF 2 * Backoff(n - 1) < 3000 THEN 2 * Backoff(n - 1) ELSE 3000

\* C17: the classification of errors.  A network timeout, and an API error
\* without a hint whose status is 408, 5xx or UNAVAILABLE, is followed, when
\* an attempt is left and ctx is not done, by a wait of the backoff delay
\* (100 ms doubling up to 3 s, counted over the waits not given by the
\* provider); any other error without a hint is fatal: Generate returns an
\* error at that call, after a single call when it is the first.
C17_ErrorClassification ==
  \A m \in 1..Len(outs) :
    LET o == outs[m]
        transient == o.kind = "timeout" \/ (TransientStatus(o) /\ o.hint < 0)
        other == /\ o.kind # "ok"
                 /\ o.kind # "timeout"
                 /\ o.kind = "api" => (o.hint < 0 /\ ~TransientStatus(o))
        earlier == Cardinality({ k \in 1..(m - 1) : ~QuotaHint(outs[k]) })
    IN /\ (transient /\ m < MaxAttempts) =>
            \/ CancelledAtCall(m)
            \/ (Len(waits) >= m /\ waits[m] = Backoff(earlier))
       /\ other => FatalAtCall(m)
       /\ (other /\ m = 1) => calls = 1

\* C17, its case: a timeout, then a 408, then an invalid-argument error: two
\* backoff waits of 100 ms and 200 ms, and an error after the third call.
C17_Witness ==
  /\ gpc = "done"
  /\ Len(outs) = 3
  /\ outs[1].kind = "timeout"
  /\ outs[2].kind = "api" /\ outs[2].code = 408
  /\ outs[3].kind = "api" /\ outs[3].status = "INVALID_ARGUMENT"
  /\ waits = <<100, 200>>
  /\ genResult = GenErr("generate content")

\* C18: Generate never returns an empty text without an error.  A text it
\* returns holds at least one part and no blank part, and a response whose
\* parts are all blank, or that has none, makes it return the
\* empty-response error.
C18_EmptyResponseIsError ==
  /\ genResult.status = "ok" =>
       /\ genResult.text # <<>>
       /\ \A k \in 1..Len(genResult.text) : genResult.text[k] \notin {"", " "}
       /\ gpc = "done"
  /\ (gpc = "done" /\ outs # <<>> /\ LastOut.kind = "ok" /\ ~HasText(LastOut)) =>
       genResult = GenErr("gemini api returned empty response")

\* C18, its case: the provider answered the second call with a single blank
\* part, and Generate has returned the empty-response error.
C18_Witness ==
  /\ gpc = "done"
  /\ Len(outs) = 2
  /\ outs[2].kind = "ok"
  /\ outs[2].parts = <<" ">>
  /\ genResult = GenErr("gemini api returned empty response")

\* ---------------------------------------------------------------------------
\* gemini.Matcher.Evaluate: one prompt, one generated text, one assessment.
\* Scores and thresholds are counted in tenths (3 is 0.3).
\* ---------------------------------------------------------------------------

\* A decoded JSON value: a bool, a string, a number, or null (also a key
\* that is absent from the object).
JBool(b) == [t |-> "bool", b |-> b, s |-> "", n |-> 0]
JString(str) == [t |-> "string", b |-> FALSE, s |-> str, n |-> 0]
JNumber(n) == [t |-> "number", b |-> FALSE, s |-> "", n |-> n]
JNull == [t |-> "null", b |-> FALSE, s |-> "", n |-> 0]

\* A float64: a number of tenths, or NaN.
Float(n) == [nan |-> FALSE, v |-> n]
NaN == [nan |-> TRUE, v |-> 0]

\* The text the generator returns: a JSON object with the four keys, bare or
\* inside a Markdown code fence, or a text that is not JSON at all.
RawText(fence, valid, fit, score, reason, message) ==
  [fence |-> fence, valid |-> valid, fit |-> fit, score |-> score,
   reason |-> reason, message |-> message]

Fences == {"none", "json", "plain"}

FitValues ==
  { JBool(TRUE), JBool(FALSE), JString(" Yes "), JString("no"), JNumber(10), JNull }

ScoreValues ==
  { JNumber(3), JNumber(5), JNumber(8), JString(" 0.8 "), JString("abc"),
    JBool(TRUE), JNull }

ReasonValues == { JString(" too junior "), JNumber(10), JNull }

RawTexts ==
  { RawText(f, TRUE, fit, score, reason, JString("hello")) :
      f \in Fences, fit \in FitValues, score \in ScoreValues, reason \in ReasonValues }
  \cup { RawText(f, FALSE, JNull, JNull, JNull, JNull) : f \in Fences }

\* The errors a contentGenerator hands back.
GeneratorErrors == { "gemini api returned empty response", "context canceled" }

GeneratorOutcomes ==
  { [err |-> "", raw |-> r] : r \in RawTexts }
  \cup { [err |-> e, raw |-> NoText] : e \in GeneratorErrors }

\* Matcher.minScore as configured: none, 0.5, and a negative one.
MinScores == { 0, 5, -5 }

\* strings.ToLower(strings.TrimSpace(val)) on the strings of FitValues.
lowerTrimmed(str) ==
  CASE str = " Yes " -> "yes"
    [] OTHER -> str

\* strings.TrimSpace on the strings of the reasons and messages.
trimmed(str) ==
  CASE str = " too junior " -> "too junior"
    [] OTHER -> str

\* strconv.ParseFloat(strings.TrimSpace(val), 64) on the strings of ScoreValues.
parseFloat(str) ==
  CASE str = " 0.8 " -> Float(8)
    [] OTHER -> NaN

coerceBool(val) ==
  CASE val.t = "bool" -> val.b
    [] val.t = "string" -> lowerTrimmed(val.s) \in {"true", "yes"}
    [] val.t = "number" -> val.n # 0
    [] OTHER -> FALSE

coerceFloat(val) ==
  CASE val.t = "number" -> Float(val.n)
    [] val.t = "string" -> parseFloat(val.s)
    [] OTHER -> NaN

\* json.Marshal of a decoded bool or number (10 tenths is 1).
jsonMarshal(val) ==
  CASE val.t = "bool" -> (IF val.b THEN "true" ELSE "false")
    [] val.t = "number" /\ val.n = 10 -> "1"
    [] OTHER -> "0.5"

coerceString(val) ==
  CASE val.t = "string" -> trimmed(val.s)
    [] val.t = "null" -> ""
    [] OTHER -> jsonMarshal(val)

\* The characters of a text, in pieces: three backticks ("ticks"), the word json,
\* white space, and the payload (the JSON document or what stands for it).
Text(raw) ==
  CASE raw.fence = "json" -> <<"ticks", "json", "ws", "payload", "ws", "ticks">>
    [] raw.fence = "plain" -> <<"ticks", "ws", "payload", "ws", "ticks">>
    [] OTHER -> <<"payload">>

\* strings.TrimSpace on a text in pieces.
RECURSIVE trimSpace(_)
trimSpace(text) ==
  IF text = <<>> THEN text
  ELSE IF Head(text) = "ws" THEN trimSpace(Tail(text))
  ELSE IF text[Len(text)] = "ws" THEN trimSpace(SubSeq(text, 1, Len(text) - 1))
  ELSE text

\* strings.Trim(raw, backtick) on a text in pieces.
RECURSIVE trimTicks(_)
trimTicks(text) ==
  IF text = <<>> THEN text
  ELSE IF Head(text) = "ticks" THEN trimTicks(Tail(text))
  ELSE IF text[Len(text)] = "ticks" THEN trimTicks(SubSeq(text, 1, Len(text) - 1))
  ELSE text

\* strings.TrimPrefix.
trimPrefix(text, prefix) ==
  IF Len(text) >= Len(prefix) /\ SubSeq(text, 1, Len(prefix)) = prefix
  THEN SubSeq(text, Len(prefix) + 1, Len(text))
  ELSE text

\* raw[:idx] for idx the last index of three backticks, or raw when there is none.
beforeLastTicks(text) ==
  LET at == { k \in 1..Len(text) : text[k] = "ticks" }
  IN  IF at = {} THEN text
      ELSE SubSeq(text, 1, (CHOOSE k \in at : \A l \in at : l <= k) - 1)

\* An extractJSON that knows no code fence.
extractJSONTrimOnly(text) == trimSpace(text)

\* extractJSON: the text without its code fence.
extractJSON(text) ==
  LET raw == trimSpace(text)
      inner == IF raw # <<>> /\ Head(raw) = "ticks"
               THEN beforeLastTicks(
                      trimSpace(trimPrefix(trimPrefix(raw, <<"ticks", "json">>), <<"ticks">>)))
               ELSE raw
  IN  trimSpace(trimTicks(inner))

\* json.Unmarshal into a map succeeds: the text is the payload alone and the
\* payload is a JSON object.
unmarshals(cleaned, raw) == cleaned = <<"payload">> /\ raw.valid

EvalErr(err) ==
  [status |-> "error", err |-> err, fit |-> FALSE, score |-> 0, reason |-> "",
   message |-> "", raw |-> NoText]

EvalOk(fit, score, reason, message, raw) ==
  [status |-> "ok", err |-> "", fit |-> fit, score |-> score, reason |-> reason,
   message |-> message, raw |-> raw]

\* A parseResponse that refuses a fit that is no bool and a score that is no
\* number.
parseResponseStrict(raw) ==
  IF ~unmarshals(extractJSON(trimSpace(Text(raw))), raw)
     \/ raw.fit.t # "bool" \/ raw.score.t # "number"
  THEN EvalErr("parse gemini response")
  ELSE EvalOk(raw.fit.b, raw.score.n, coerceString(raw.reason),
              coerceString(raw.message), NoText)

\* parseResponse: an assessment without Raw, or the parse error.
parseResponse(raw) ==
  LET cleaned == extractJSON(trimSpace(Text(raw)))
      score == coerceFloat(raw.score)
  IN  IF ~unmarshals(cleaned, raw) THEN EvalErr("parse gemini response")
      ELSE EvalOk(coerceBool(raw.fit),
                  IF score.nan THEN 0 ELSE score.v,
                  coerceString(raw.reason),
                  coerceString(raw.message),
                  NoText)

\* A threshold that is never applied.
applyThresholdNever(minScore, assessment) == assessment

\* Evaluate's threshold: a score below a positive minScore clears Fit.
applyThreshold(minScore, assessment) ==
  IF minScore > 0 /\ assessment.score < minScore
  THEN [assessment EXCEPT !.fit = FALSE]
  ELSE assessment

\* A generator error wrapped on its way out of Evaluate.
generateFailedWrapped(err) == EvalErr("evaluate")

\* Evaluate's return when GenerateContent failed: nil and the same error.
generateFailed(err) == EvalErr(err)

MatchInit ==
  /\ PipeIdle
  /\ GenIdle
  /\ StoreIdle
  /\ SanIdle
  /\ mpc = "idle"
  /\ mMinScore \in MinScores
  /\ mArgs \in [resume : BOOLEAN, vacancy : BOOLEAN]
  /\ mGenCalls = 0
  /\ mGen = NoGen
  /\ mResult = NoEval

\* Evaluate is called: a nil resume or a nil vacancy is refused before
\* anything is sent.  (Marshalling a decoded resume and a vacancy does not
\* fail.)
EvalStart ==
  /\ mpc = "idle"
  /\ IF ~mArgs.resume
       THEN /\ mResult' = EvalErr("resume details are required")
            /\ mpc' = "done"
       ELSE IF ~mArgs.vacancy
              THEN /\ mResult' = EvalErr("vacancy is required")
                   /\ mpc' = "done"
              ELSE /\ mpc' = "generate"
                   /\ UNCHANGED mResult
  /\ UNCHANGED <<pipeVars, genVars, storeVars, sanVars, mMinScore, mArgs, mGenCalls, mGen>>

\* m.generator.GenerateContent(ctx, prompt) and the return on its error.
EvalGenerate ==
  /\ mpc = "generate"
  /\ \E out \in GeneratorOutcomes :
       /\ mGen' = out
       /\ mGenCalls' = mGenCalls + 1
       /\ IF out.err # ""
            THEN /\ mResult' = generateFailed(out.err)
                 /\ mpc' = "done"
            ELSE /\ mpc' = "parse"
                 /\ UNCHANGED mResult
  /\ UNCHANGED <<pipeVars, genVars, storeVars, sanVars, mMinScore, mArgs>>

\* parseResponse, the threshold, Raw, and the return.
EvalParse ==
  /\ mpc = "parse"
  /\ LET assessment == parseResponse(mGen.raw)
     IN  mResult' = IF assessment.status = "error" THEN assessment
                    ELSE [applyThreshold(mMinScore, assessment) EXCEPT !.raw = mGen.raw]
  /\ mpc' = "done"
  /\ UNCHANGED <<pipeVars, genVars, storeVars, sanVars, mMinScore, mArgs, mGenCalls, mGen>>

MatchNext == EvalStart \/ EvalGenerate \/ EvalParse

MatchSpec == MatchInit /\ [][MatchNext]_vars

\* What parseResponse made of the text the generator returned.
Parsed == parseResponse(mGen.raw)

\* Evaluate returned an assessment.
Assessed == mpc = "done" /\ mResult.status = "ok"

\* C19: the minimum-score threshold overrides the provider.  Whenever
\* Evaluate returns an assessment, a threshold above 0 with a parsed score
\* below it gives fit = false whatever fit the response claimed, and a
\* threshold of 0 gives the fit as parsed.
C19_ThresholdOverridesProvider ==
  Assessed =>
    /\ (mMinScore > 0 /\ Parsed.score < mMinScore) => mResult.fit = FALSE
    /\ mMinScore = 0 => mResult.fit = Parsed.fit

\* The response claimed fit = true with score 0.3, the threshold is 0.5,
\* and Evaluate returned fit = false.
C19_Witness ==
  /\ Assessed
  /\ mMinScore = 5
  /\ mGen.raw.fit = JBool(TRUE)
  /\ mGen.raw.score = JNumber(3)
  /\ Parsed.fit
  /\ mResult.fit = FALSE
  /\ mResult.score = 3

\* C20: the Matcher neither retries nor masks a generator failure.  Evaluate
\* never calls GenerateContent twice; an Evaluate that was given a resume and
\* a vacancy has called it exactly once when it returns; and when that call
\* returned an error, Evaluate returns that very error and no assessment.
C20_OneCallErrorUnchanged ==
  /\ mGenCalls <= 1
  /\ (mpc = "done" /\ mArgs.resume /\ mArgs.vacancy) => mGenCalls = 1
  /\ (mpc = "done" /\ mGen.err # "") =>
       /\ mResult.status = "error"
       /\ mResult.err = mGen.err
       /\ mResult.raw = NoText

\* The one call failed with "context canceled" and Evaluate returned it.
C20_Witness ==
  /\ mpc = "done"
  /\ mArgs.resume
  /\ mArgs.vacancy
  /\ mGenCalls = 1
  /\ mGen.err = "context canceled"
  /\ mResult = EvalErr("context canceled")

\* Evaluate returned after the generator handed it a text.
ReturnedOnText == mpc = "done" /\ mGenCalls = 1 /\ mGen.err = ""

\* What a fit, a score, a reason of a JSON object are to be read as.
ReadAsFit(val) ==
  \/ val.t = "bool" /\ val.b
  \/ val.t = "string" /\ val.s \in {"true", "yes", " Yes "}
  \/ val.t = "number" /\ val.n # 0

ReadAsScore(val) ==
  IF val.t = "number" THEN val.n
  ELSE IF val = JString(" 0.8 ") THEN 8
  ELSE 0

ReadAsString(val) ==
  IF val = JString(" too junior ") THEN "too junior"
  ELSE IF val.t = "string" THEN val.s
  ELSE IF val = JNumber(10) THEN "1"
  ELSE ""

\* C21: response parsing fails on syntax only.  A text that is not valid JSON
\* makes Evaluate return the parse error and no assessment; a valid JSON
\* object is parsed without error whatever the types of its fields: fit read
\* from a bool, a string or a number, score from a number or a numeric string
\* and 0 otherwise, reason and message from a string or any other value.
C21_ParseFailsOnlyOnSyntax ==
  ReturnedOnText =>
    /\ ~mGen.raw.valid => mResult = EvalErr("parse gemini response")
    /\ mGen.raw.valid =>
         /\ mResult.status = "ok"
         /\ mResult.err = ""
         /\ mResult.score = ReadAsScore(mGen.raw.score)
         /\ mResult.reason = ReadAsString(mGen.raw.reason)
         /\ mResult.message = ReadAsString(mGen.raw.message)
         /\ mMinScore <= 0 => (mResult.fit <=> ReadAsFit(mGen.raw.fit))

\* A valid object with fit " Yes ", score "abc" and reason 1 was parsed to
\* fit = true, score 0, reason "1".
C21_Witness ==
  /\ ReturnedOnText
  /\ mMinScore = 0
  /\ mGen.raw.valid
  /\ mGen.raw.fit = JString(" Yes ")
  /\ mGen.raw.score = JString("abc")
  /\ mGen.raw.reason = JNumber(10)
  /\ mResult.status = "ok"
  /\ mResult.fit
  /\ mResult.score = 0
  /\ mResult.reason = "1"

\* The text without its code fence.
Bare(raw) == [raw EXCEPT !.fence = "none"]

\* C22: a response inside a Markdown code fence, with or without the json
\* tag, gives exactly the assessment (or the error) that the same JSON
\* without the fence gives.
C22_FenceParsedAsBare ==
  (ReturnedOnText /\ mGen.raw.fence \in {"json", "plain"}) =>
    LET bare == parseResponse(Bare(mGen.raw))
    IN  /\ mResult.status = bare.status
        /\ mResult.err = bare.err
        /\ mResult.score = bare.score
        /\ mResult.reason = bare.reason
        /\ mResult.message = bare.message
        /\ mResult.fit = applyThreshold(mMinScore, bare).fit

\* A fenced object with fit true and score "0.8" was parsed to fit = true
\* and score 0.8.
C22_Witness ==
  /\ ReturnedOnText
  /\ mGen.raw.fence = "json"
  /\ mGen.raw.valid
  /\ mGen.raw.fit = JBool(TRUE)
  /\ mGen.raw.score = JString(" 0.8 ")
  /\ mResult.status = "ok"
  /\ mResult.fit
  /\ mResult.score = 8

\* ---------------------------------------------------------------------------
\* The filters of steps.go, stage by stage
\* ---------------------------------------------------------------------------
\* The elements of a list.
Range(list) == { list[k] : k \in 1..Len(list) }

\* The stages of a given filter that were applied without error.
StagesOf(name) == { k \in 1..Len(stepsLog) : stepsLog[k].name = name }

\* C23: after the employer-blocklist stage has been applied without error, no
\* vacancy of a blocked employer is left in the collection, whatever the
\* collection and the blocklist.
C23_NoBlockedEmployerRemains ==
  \A k \in StagesOf(EmployersName) :
    \A m \in 1..Len(stepsLog[k].out) :
      stepsLog[k].out[m].emp \notin Range(fEmployers)

\* C24: after the hard-test stage has been applied, no vacancy that requires
\* a test is left in the collection, and the stage's dropped count is the
\* number of test-requiring vacancies of its input.
C24_NoTestRemains ==
  \A k \in StagesOf(WithTestName) :
    /\ \A m \in 1..Len(stepsLog[k].out) : ~stepsLog[k].out[m].hasTest
    /\ stepsLog[k].dropped =
         Cardinality({ m \in 1..Len(stepsLog[k].in) : stepsLog[k].in[m].hasTest })

\* The stages that exclude by a list of vacancy IDs: already-applied without
\* the ignore flag, exclude-file with a path.
ByIDStages ==
  { k \in StagesOf(AppliedHistoryName) : ~ignoreApplied }
  \cup { k \in StagesOf(ExcludeFileName) : fPath # "" }

\* C25: after the already-applied stage (without the ignore flag) or the
\* exclude-file stage (with a path) has been applied without error, no
\* vacancy whose ID is in the negotiation history, respectively in the
\* exclude file, is left, and every vacancy whose ID is not in that list is
\* still in the collection.
C25_ListedIDsRemoved ==
  \A k \in ByIDStages :
    LET listed == Range(applyLog[k].targets)
    IN  /\ \A m \in 1..Len(stepsLog[k].out) : stepsLog[k].out[m].id \notin listed
        /\ \A m \in 1..Len(stepsLog[k].in) :
             stepsLog[k].in[m].id \notin listed =>
               stepsLog[k].in[m] \in Range(stepsLog[k].out)
        /\ Len(stepsLog[k].out) = Cardinality(Range(stepsLog[k].out))

\* One run in which the already-applied stage removed vacancy 1 of two and
\* kept vacancy 2, which the exclude-file stage then removed.
C25_Witness ==
  \E k \in StagesOf(AppliedHistoryName), l \in StagesOf(ExcludeFileName) :
    /\ ~ignoreApplied
    /\ fPath # ""
    /\ applyLog[k].targets = <<1>>
    /\ IDs(stepsLog[k].in) = {1, 2}
    /\ IDs(stepsLog[k].out) = {2}
    /\ applyLog[l].targets = <<2>>
    /\ IDs(stepsLog[l].in) = {2}
    /\ stepsLog[l].out = <<>>

\* ---------------------------------------------------------------------------
\* The exclude-file store: GetExludedVacanciesFromFile, Append, ToFile
\* ---------------------------------------------------------------------------
\* Entries handed to the store, by the AI stage and by the operator.
StoreEntries ==
  { ExcludedVacancy(1, ExcludeActorAI, excludeReasonAIFallback),
    ExcludedVacancy(2, ExcludeActorAI, "bad"),
    ExcludedVacancy(2, ExcludeActorHuman, ExcludeReasonManualApply) }

\* What one append-and-write operation appends: one entry or two.
Batches ==
  { <<e>> : e \in StoreEntries } \cup { <<e, f>> : e \in StoreEntries, f \in StoreEntries }

\* The entries of a sequence of batches, in order.
RECURSIVE Flatten(_)
Flatten(batches) ==
  IF batches = <<>> THEN <<>> ELSE Head(batches) \o Flatten(Tail(batches))

\* The file of the store before anything is appended: missing, or empty
\* (size 0) and writable or not.
StoreInit ==
  /\ PipeIdle
  /\ GenIdle
  /\ MatchIdle
  /\ SanIdle
  /\ sFile \in { MissingFile, EmptyFile,
                 [exists |-> TRUE, writable |-> FALSE, content |-> <<>>] }
  /\ sAppended = <<>>
  /\ sLoaded = NotLoaded

\* One append-and-write operation: the file is loaded, the batch appended to
\* what it holds, and the whole written back to the same path.
StoreAppend ==
  /\ \E batch \in Batches :
       /\ Len(Flatten(sAppended)) + Len(batch) <= MaxEntries
       /\ LET excluded == GetExludedVacanciesFromFile(sFile)
              w == ToFile(sFile, excluded.items \o batch)
          IN  IF excluded.err # "" \/ w.err # ""
                THEN UNCHANGED <<sFile, sAppended>>
                ELSE /\ sFile' = w.file
                     /\ sAppended' = Append(sAppended, batch)
  /\ sLoaded' = NotLoaded
  /\ UNCHANGED <<pipeVars, genVars, matchVars, sanVars>>

\* The file is loaded again from the same path.
StoreReload ==
  /\ sLoaded.status = "none"
  /\ LET excluded == GetExludedVacanciesFromFile(sFile)
     IN  sLoaded' = [status |-> "loaded", err |-> excluded.err, items |-> excluded.items]
  /\ UNCHANGED <<pipeVars, genVars, matchVars, sanVars, sFile, sAppended>>

StoreNext == StoreAppend \/ StoreReload

StoreSpec == StoreInit /\ [][StoreNext]_vars

\* C26: exclude-file round trip.  Starting from an empty exclude file,
\* after N entries were appended in one or several append-and-write
\* operations, loading the file from the same path gives exactly these N
\* entries, in order, with their IDs, actors and reasons.
C26_RoundTrip ==
  (sLoaded.status = "loaded" /\ sFile.exists) =>
    /\ sLoaded.err = ""
    /\ sLoaded.items = Flatten(sAppended)

\* Three entries appended in two operations and loaded again.
C26_Witness ==
  /\ sLoaded.status = "loaded"
  /\ sLoaded.err = ""
  /\ Len(sAppended) = 2
  /\ Len(Flatten(sAppended)) = 3
  /\ sLoaded.items = Flatten(sAppended)
  /\ sLoaded.items[3] = ExcludedVacancy(2, ExcludeActorHuman, ExcludeReasonManualApply)

\* C27: reading the exclude file from a path where the file is empty or does
\* not exist gives an empty list and no error.
C27_EmptyOrMissingReadsEmpty ==
  (sLoaded.status = "loaded" /\ (~sFile.exists \/ Len(sFile.content) = 0)) =>
    /\ sLoaded.err = ""
    /\ sLoaded.items = <<>>

\* The appends of the AI stage that failed on the exclude file.
FailedAppends == { k \in 1..Len(evalLog) : evalLog[k].appendErr # "" }

\* The Apply calls of the exclude-file stage that failed.
FailedFileReads ==
  { k \in 1..Len(applyLog) : applyLog[k].name = ExcludeFileName /\ applyLog[k].err # "" }

C29_NilLoggerNeverCrashes ==
  (~logger /\ pc = "done") => result.status \in {"ok", "err"}

\* ------------------------------------------------------------------------
\* Disabling filters before the run
\* ------------------------------------------------------------------------
\* Reasons passed to Disable.
DisableReasons == {"forced", "no api key"}

\* The filters of the pipeline, the AI filter enabled and validly
\* configured, on MaxVac plain vacancies or on none.
DisableInit ==
  /\ GenIdle
  /\ MatchIdle
  /\ StoreIdle
  /\ SanIdle
  /\ steps \in StepLists \ {<<>>}
  /\ aiEnabled = TRUE
  /\ aiConfig = "ok"
  /\ logger \in BOOLEAN
  /\ aiReason = ""
  /\ disabledWith = NeverDisabled
  /\ aiDisableCalls = 0
  /\ earlierRuns = <<>>
  /\ ignoreApplied = FALSE
  /\ cfgEmployers = <<>>
  /\ excludePath = ""
  /\ file = OperatorFile
  /\ fEmployers = <<>>
  /\ fPath = ""
  /\ fAssessments = {}
  /\ fileOps = [reads |-> 0, writes |-> 0]
  /\ v \in { <<>>, [k \in 1..MaxVac |-> Vacancy(k, FALSE, "e1")] }
  /\ input = v
  /\ pc = "validate"
  /\ i = 1
  /\ j = 0
  /\ approved = <<>>
  /\ result = NoResult
  /\ validateLog = <<>>
  /\ applyLog = <<>>
  /\ stepsLog = <<>>
  /\ evalLog = <<>>

\* step.Disable(reason) on the filter called name, before Run is called.
DisableStep(name, reason) ==
  LET ai == Disable(name, [enabled |-> aiEnabled, reason |-> aiReason], reason)
  IN  /\ pc = "validate"
      /\ i = 1
      /\ aiEnabled' = ai.enabled
      /\ aiReason' = ai.reason
      /\ name = AIFitName => aiDisableCalls < MaxDisableCalls
      /\ disabledWith' = [disabledWith EXCEPT ![name] = reason]
      /\ aiDisableCalls' = IF name = AIFitName THEN aiDisableCalls + 1 ELSE aiDisableCalls
      /\ UNCHANGED <<genVars, matchVars, storeVars, sanVars, logger, input, steps, aiConfig,
                     ignoreApplied, cfgEmployers, excludePath, fEmployers, fPath,
                     fAssessments, file, fileOps, v, pc, i, j, approved, result,
                     validateLog, applyLog, stepsLog, evalLog, earlierRuns>>

\* A caller holding one filter of the list calls its Disable.
DisableCall ==
  \E k \in 1..Len(steps), reason \in DisableReasons : DisableStep(steps[k], reason)

\* filtering.DisableByName(steps, name, reason): Disable on every step of
\* that name, nothing when the list has none.
DisableByName ==
  \E name \in FilterNames, reason \in DisableReasons :
    IF \E k \in 1..Len(steps) : steps[k] = name
      THEN DisableStep(name, reason)
      ELSE pc = "validate" /\ i = 1 /\ UNCHANGED vars

DisableNext ==
  \/ DisableCall
  \/ DisableByName
  \/ Next

DisableSpec == DisableInit /\ [][DisableNext]_vars

\* Status().Reason of the filter called name: the AI filter reports the
\* reason it was disabled with, applied_history a fixed text when the ignore
\* flag is set, the other filters none.
StatusReason(name) ==
  IF name = AIFitName THEN aiReason
  ELSE IF name = AppliedHistoryName /\ ignoreApplied THEN "skip requested via flag"
  ELSE ""

\* C30: every filter is independently disable-able: once Disable(reason) or
\* DisableByName was called on a filter, it reports not enabled, records
\* the reason and neither validates nor applies in the run, and the AI
\* filter stays enabled as long as only other filters were disabled.
C30_EveryFilterDisableable ==
  /\ \A name \in FilterNames :
        disabledWith[name] # "" =>
          /\ ~IsEnabled(name)
          /\ StatusReason(name) = disabledWith[name]
          /\ name \notin Range(validateLog)
          /\ name \notin Range(ApplyNames)
  /\ disabledWith[AIFitName] = "" => aiEnabled

Run(c, n) == [c |-> c, n |-> n]

\* Rune budget of a single-line field, of the free instructions, and the
\* number of lines the free instructions keep.
maxSingleLineRunes == 160
maxUserInstructionRunes == 400
maxUserInstructionLines == 5

\* The literal defaults, and the bullet that opens a line of instructions.
NoneText == <<Run("none", 4)>>
FriendlyText == <<Run("Friendly", 8)>>
Bullet == Run("  - ", 4)

\* The single-line fields and the multi-line one.
SingleLineFields == {"criteria", "deal_breakers", "keywords", "tone", "region"}
InstructionsField == "instructions"

\* The default a single-line field falls back to.
DefaultFor(field) == IF field = "tone" THEN FriendlyText ELSE NoneText

\* Number of runes of a text.
RECURSIVE RuneLen(_)
RuneLen(s) == IF s = <<>> THEN 0 ELSE Head(s).n + RuneLen(Tail(s))

\* A neutralisation that leaves square brackets as they are.
neutralizeKeepsBrackets(c) ==
  CASE c \in {"nl", "tab"} -> "sp"
    [] c = "tick" -> "quote"
    [] OTHER -> c

\* One rune neutralised: newline and tab become a space, a backtick a plain
\* quote, square brackets parentheses.
neutralize(c) ==
  CASE c \in {"nl", "tab"} -> "sp"
    [] c = "tick" -> "quote"
    [] c = "[" -> "("
    [] c = "]" -> ")"
    [] OTHER -> c

\* Every rune neutralised, control characters stripped.
neutralizeText(s) ==
  LET kept == SelectSeq(s, LAMBDA r : r.c # "ctl")
  IN  [k \in 1..Len(kept) |-> Run(neutralize(kept[k].c), kept[k].n)]

\* Whitespace normalised: leading and trailing spaces removed, every other
\* stretch of spaces reduced to one space (and equal neighbours joined into
\* one run).
RECURSIVE collapseInto(_, _)
collapseInto(acc, s) ==
  IF s = <<>>
    THEN IF acc # <<>> /\ acc[Len(acc)].c = "sp" THEN SubSeq(acc, 1, Len(acc) - 1) ELSE acc
    ELSE LET r == Head(s)
             last == IF acc = <<>> THEN Run("", 0) ELSE acc[Len(acc)]
         IN  IF r.c = "sp"
               THEN IF acc = <<>> \/ last.c = "sp"
                      THEN collapseInto(acc, Tail(s))
                      ELSE collapseInto(Append(acc, Run("sp", 1)), Tail(s))
               ELSE IF last.c = r.c
                      THEN collapseInto([acc EXCEPT ![Len(acc)] = Run(r.c, last.n + r.n)], Tail(s))
                      ELSE collapseInto(Append(acc, r), Tail(s))

collapseSpace(s) == collapseInto(<<>>, s)

\* The first budget runes of a text.
RECURSIVE truncateRunes(_, _)
truncateRunes(s, budget) ==
  IF s = <<>> \/ budget <= 0 THEN <<>>
  ELSE IF Head(s).n <= budget
         THEN <<Head(s)>> \o truncateRunes(Tail(s), budget - Head(s).n)
         ELSE <<Run(Head(s).c, budget)>>

\* A single-line field as it is rendered into the prompt.
sanitizeSingleLine(s, fallback) ==
  LET line == truncateRunes(collapseSpace(neutralizeText(s)), maxSingleLineRunes)
  IN  IF line = <<>> THEN fallback ELSE line

\* The lines of a text: the stretches between newlines.
RECURSIVE splitInto(_, _, _)
splitInto(lines, cur, s) ==
  IF s = <<>> THEN Append(lines, cur)
  ELSE IF Head(s).c = "nl"
         THEN splitInto(Append(lines, cur), <<>>, Tail(s))
         ELSE splitInto(lines, Append(cur, Head(s)), Tail(s))

splitLines(s) == splitInto(<<>>, <<>>, s)

\* A budget that drops the line that does not fit any more.
RECURSIVE fitBudgetDropsLine(_, _)
fitBudgetDropsLine(lines, budget) ==
  IF lines = <<>> \/ budget <= 0 \/ RuneLen(Head(lines)) > budget THEN <<>>
  ELSE <<Head(lines)>> \o fitBudgetDropsLine(Tail(lines), budget - RuneLen(Head(lines)))

\* The lines that fit the budget: a line that does not fit any more is cut
\* to what is left of the budget, and nothing follows it.
RECURSIVE fitBudget(_, _)
fitBudget(lines, budget) ==
  IF lines = <<>> \/ budget <= 0 THEN <<>>
  ELSE IF RuneLen(Head(lines)) <= budget
         THEN <<Head(lines)>> \o fitBudget(Tail(lines), budget - RuneLen(Head(lines)))
         ELSE <<truncateRunes(Head(lines), budget)>>

\* The free instructions sanitized: each line neutralised and
\* whitespace-normalised, empty lines left out, the first lines kept, within
\* the budget.
sanitizeUserInstructions(s) ==
  LET raw == splitLines(s)
      clean == [k \in 1..Len(raw) |-> collapseSpace(neutralizeText(raw[k]))]
      filled == SelectSeq(clean, LAMBDA l : l # <<>>)
      first == SubSeq(filled, 1, IF Len(filled) < maxUserInstructionLines
                                   THEN Len(filled) ELSE maxUserInstructionLines)
  IN  fitBudget(first, maxUserInstructionRunes)

\* The instructions as a bullet list, "- none" when there are none.
renderInstructions(lines) ==
  IF lines = <<>> THEN << <<Bullet>> \o NoneText >>
  ELSE [k \in 1..Len(lines) |-> <<Bullet>> \o lines[k]]

\* Texts of the operator: up to MaxPieces pieces, one after the other.  A
\* piece is "[aaaaaa]", a space, a newline, a tab, a control character, a
\* backtick, a letter, 160 letters or 1000 letters.
Bracketed == <<Run("[", 1), Run("a", 6), Run("]", 1)>>
Pieces ==
  { Bracketed, <<Run("sp", 1)>>, <<Run("nl", 1)>>, <<Run("tab", 1)>>,
    <<Run("ctl", 1)>>, <<Run("tick", 1)>>, <<Run("x", 1)>>,
    <<Run("a", 160)>>, <<Run("x", 1000)>> }

\* The parts one after the other, sep between two of them.
RECURSIVE Join(_, _)
Join(parts, sep) ==
  IF parts = <<>> THEN <<>>
  ELSE IF Len(parts) = 1 THEN Head(parts)
  ELSE Head(parts) \o sep \o Join(Tail(parts), sep)

PieceTexts ==
  { Join(ps, <<>>) : ps \in UNION { [1..n -> Pieces] : n \in 0..MaxPieces } }

\* Free instructions of up to MaxLines lines: a line is empty, a letter, 160
\* letters, or " [aaaaaa]" followed by a tab.
LineKinds ==
  { <<>>, <<Run("x", 1)>>, <<Run("a", 160)>>,
    <<Run("sp", 1)>> \o Bracketed \o <<Run("tab", 1)>> }

LineTexts ==
  { Join(ls, <<Run("nl", 1)>>) : ls \in UNION { [1..n -> LineKinds] : n \in 1..MaxLines } }

\* An override field and the text the operator gave for it.
SanInit ==
  /\ PipeIdle
  /\ GenIdle
  /\ MatchIdle
  /\ StoreIdle
  /\ \/ pField \in SingleLineFields /\ pInput \in PieceTexts
     \/ pField = InstructionsField /\ pInput \in PieceTexts \cup LineTexts
  /\ pOut = <<>>
  /\ ppc = "start"

\* A single-line field is rendered into the template.
RenderSingleLine ==
  /\ ppc = "start"
  /\ pField \in SingleLineFields
  /\ pOut' = <<sanitizeSingleLine(pInput, DefaultFor(pField))>>
  /\ ppc' = "done"
  /\ UNCHANGED <<pipeVars, genVars, matchVars, storeVars, pField, pInput>>

\* The free instructions are rendered into the template.
RenderInstructions ==
  /\ ppc = "start"
  /\ pField = InstructionsField
  /\ pOut' = renderInstructions(sanitizeUserInstructions(pInput))
  /\ ppc' = "done"
  /\ UNCHANGED <<pipeVars, genVars, matchVars, storeVars, pField, pInput>>

SanNext ==
  \/ RenderSingleLine
  \/ RenderInstructions

SanSpec == SanInit /\ [][SanNext]_vars

\* Number of runes c in a text, and of runes that are neither whitespace nor
\* control characters.
RECURSIVE Count(_, _)
Count(s, c) ==
  IF s = <<>> THEN 0
  ELSE (IF Head(s).c = c THEN Head(s).n ELSE 0) + Count(Tail(s), c)

Visible(s) ==
  RuneLen(s) - Count(s, "sp") - Count(s, "nl") - Count(s, "tab") - Count(s, "ctl")

\* A single-line field has been rendered.
SingleLineDone == ppc = "done" /\ pField \in SingleLineFields

\* C32: a rendered single-line field holds no newline, tab, control
\* character or square bracket and no two spaces in a row; it has at most 160
\* runes, and exactly 160 when the text has more than 160 runes that are not
\* whitespace; a text within the budget keeps its letters, with a
\* parenthesis for every square bracket ("[aaaaaa] x" becomes "(aaaaaa) x");
\* an empty text is rendered as "none", or "Friendly" for the tone.
C32_SingleLineNeutralizedAndBounded ==
  SingleLineDone =>
    LET out == pOut[1]
    IN  /\ Len(pOut) = 1
        /\ \A k \in 1..Len(out) :
             /\ out[k].c \notin {"nl", "tab", "ctl", "[", "]"}
             /\ out[k].c = "sp" =>
                  /\ out[k].n = 1
                  /\ k < Len(out) => out[k + 1].c # "sp"
        /\ RuneLen(out) <= 160
        /\ Visible(pInput) > 160 => RuneLen(out) = 160
        /\ RuneLen(pInput) <= 160 =>
             /\ \A c \in {"a", "x"} : Count(out, c) = Count(pInput, c)
             /\ Count(out, "(") = Count(pInput, "[")
             /\ Count(out, ")") = Count(pInput, "]")
        /\ pInput = Bracketed \o <<Run("sp", 1), Run("x", 1)>> =>
             out = <<Run("(", 1), Run("a", 6), Run(")", 1), Run("sp", 1), Run("x", 1)>>
        /\ pInput = <<>> =>
             out = IF pField = "tone" THEN <<Run("Friendly", 8)>> ELSE <<Run("none", 4)>>

\* C32, its case: the text "[aaaaaa]", a newline and 1000 letters, rendered
\* as "(aaaaaa)", a space and 151 letters.
C32_Witness ==
  /\ SingleLineDone
  /\ pInput = Bracketed \o <<Run("nl", 1), Run("x", 1000)>>
  /\ pOut = << <<Run("(", 1), Run("a", 6), Run(")", 1), Run("sp", 1), Run("x", 151)>> >>

\* The instructions have been rendered.
InstructionsDone == ppc = "done" /\ pField = InstructionsField

\* Runes of the rendered lines, their bullets not counted.
RECURSIVE ContentLen(_)
ContentLen(lines) ==
  IF lines = <<>> THEN 0 ELSE RuneLen(Tail(Head(lines))) + ContentLen(Tail(lines))

\* C33: the rendered instructions are at least one and at most 5 bullet
\* lines, free of newlines, tabs, control characters and square brackets,
\* with at most 400 runes of content in all; when a text of at most 5 lines
\* has more than 400 runes that are not whitespace, the content is exactly 400
\* runes (the last line kept is cut, not dropped); and a text without any
\* such rune is rendered as the one line "- none".
C33_InstructionsBounded ==
  InstructionsDone =>
    /\ Len(pOut) >= 1
    /\ Len(pOut) <= 5
    /\ \A k \in 1..Len(pOut) :
         /\ Head(pOut[k]) = Run("  - ", 4)
         /\ Len(pOut[k]) >= 2
         /\ \A m \in 2..Len(pOut[k]) : pOut[k][m].c \notin {"nl", "tab", "ctl", "[", "]"}
    /\ ContentLen(pOut) <= 400
    /\ (Count(pInput, "nl") <= 4 /\ Visible(pInput) > 400) => ContentLen(pOut) = 400
    /\ Visible(pInput) = 0 => pOut = << <<Run("  - ", 4), Run("none", 4)>> >>

\* C33, its case: six lines, of which the first three have 160 letters each,
\* rendered as three lines of 160, 160 and 80 letters.
C33_Witness ==
  /\ InstructionsDone
  /\ Count(pInput, "nl") = 5
  /\ pOut = << <<Run("  - ", 4), Run("a", 160)>>,
               <<Run("  - ", 4), Run("a", 160)>>,
               <<Run("  - ", 4), Run("a", 80)>> >>

\* ------------------------------------------------------------------------
\* Runs one after the other on the same exclude file
\* ------------------------------------------------------------------------
\* The pipeline of the spec with a validly configured AI filter, enabled or
\* not, no applied-history and no employer list, any exclude-file setting, on up to MaxVac plain
\* vacancies.
TwoRunInit ==
  /\ GenIdle
  /\ MatchIdle
  /\ StoreIdle
  /\ SanIdle
  /\ steps = <<WithTestName, AppliedHistoryName, EmployersName, ExcludeFileName, AIFitName>>
  /\ aiEnabled \in BOOLEAN
  /\ aiConfig = "ok"
  /\ logger \in BOOLEAN
  /\ aiReason = ""
  /\ disabledWith = NeverDisabled
  /\ aiDisableCalls = 0
  /\ earlierRuns = <<>>
  /\ ignoreApplied = TRUE
  /\ cfgEmployers = <<>>
  /\ \E setup \in ExcludeSetups : excludePath = setup[1] /\ file = setup[2]
  /\ fEmployers = <<>>
  /\ fPath = ""
  /\ fAssessments = {}
  /\ fileOps = [reads |-> 0, writes |-> 0]
  /\ v \in { [k \in 1..n |-> Vacancy(k, FALSE, "e1")] : n \in 0..MaxVac }
  /\ input = v
  /\ pc = "validate"
  /\ i = 1
  /\ j = 0
  /\ approved = <<>>
  /\ result = NoResult
  /\ validateLog = <<>>
  /\ applyLog = <<>>
  /\ stepsLog = <<>>
  /\ evalLog = <<>>

\* The program is started again: the same configuration, filters built
\* anew, the same search result, and the exclude file as the run before
\* left it.
NextRun ==
  /\ pc = "done"
  /\ Len(earlierRuns) + 1 < MaxRuns
  /\ earlierRuns' = Append(earlierRuns, evalLog)
  /\ v' = input
  /\ fEmployers' = <<>>
  /\ fPath' = ""
  /\ fAssessments' = {}
  /\ fileOps' = [reads |-> 0, writes |-> 0]
  /\ pc' = "validate"
  /\ i' = 1
  /\ j' = 0
  /\ approved' = <<>>
  /\ result' = NoResult
  /\ validateLog' = <<>>
  /\ applyLog' = <<>>
  /\ stepsLog' = <<>>
  /\ evalLog' = <<>>
  /\ UNCHANGED <<genVars, matchVars, storeVars, sanVars, logger, input, steps, aiEnabled,
                 aiReason, disabledWith, aiDisableCalls, aiConfig, ignoreApplied,
                 cfgEmployers, excludePath, file>>

TwoRunNext ==
  \/ NextRun
  \/ Next

TwoRunSpec == TwoRunInit /\ [][TwoRunNext]_vars

\* The evaluations of earlier runs in which the Matcher judged the vacancy
\* not to fit, an exclude-file path being configured.
RejectedEarlier ==
  { e \in UNION { Range(earlierRuns[k]) : k \in 1..Len(earlierRuns) } :
      excludePath # "" /\ e.called /\ e.out.err = "" /\ ~e.out.fit }

\* The vacancy of an earlier evaluation is removed by the exclude-file stage
\* of this run and never evaluated in it.
NotResubmitted(e) ==
  /\ \A m \in 1..Len(evalLog) : evalLog[m].id # e.id
  /\ \A k \in StagesOf(ExcludeFileName) : e.id \notin IDs(stepsLog[k].out)

BackoffOutcomes ==
  { Response(<<"a">>),
    PlainError("timeout"),
    APIError(StatusTooManyRequests, "RESOURCE_EXHAUSTED", FALSE, 2000),
    PlainError("other") }

\* A Generator configured with MaxBackoffRetries attempts.
BackoffInit ==
  /\ PipeIdle
  /\ MatchIdle
  /\ StoreIdle
  /\ SanIdle
  /\ gMaxRetries = MaxBackoffRetries
  /\ gpc = "start"
  /\ attempt = 0
  /\ delay = 0
  /\ decision = NoRetry
  /\ ctxDone = FALSE
  /\ calls = 0
  /\ waits = <<>>
  /\ outs = <<>>
  /\ genResult = [status |-> "none", text |-> <<>>, err |-> ""]

\* One attempt of the series.
BackoffCall == GenCallWith(BackoffOutcomes)

BackoffNext ==
  \/ GenStart
  \/ BackoffCall
  \/ GenWaitElapsed
  \/ GenWaitCancelled
  \/ CtxCancel

BackoffSpec == BackoffInit /\ [][BackoffNext]_vars

\* The waits up to the k-th that used the backoff delay: those that followed
\* an error without a usable retry delay of the provider.
BackoffWaits(k) == { m \in 1..k : ~QuotaHint(outs[m]) }

\* C35: the n-th wait that uses the backoff delay lasts min(100 ms * 2^(n-1),
\* 3 s): 100 ms first, doubled after each such wait, never more than 3 s;
\* waits taken from a retry delay of the provider are not counted in n.
C35_ExponentialBackoff ==
  \A k \in 1..Len(waits) :
    ~QuotaHint(outs[k]) =>
      LET n == Cardinality(BackoffWaits(k))
          doubled == 100 * 2 ^ (n - 1)
      IN  waits[k] = IF doubled < 3000 THEN doubled ELSE 3000

\* C35, its case: seven waits, the third taken from the provider's delay of
\* two seconds plus one, the others doubling from 100 ms up to the cap.
C35_Witness ==
  waits = <<100, 200, 3000, 400, 800, 1600, 3000>>

\* The evaluations after which the vacancy stays in the collection: the
\* detailed record was fetched, and Evaluate failed or found a fit.
KeptEvaluations ==
  SelectSeq(evalLog, LAMBDA e : e.fetched /\ (e.out.err # "" \/ e.out.fit))

\* C36: the collection a successful AI-fit stage returns consists of exactly
\* the vacancies it received whose detailed record was fetched and whose
\* evaluation failed or returned fit = true, in the order received; each
\* carries an assessment, which holds the error alone or has fit = true, and
\* none has fit = false without an error.
C36_AIFitResultExact ==
  \A k \in AIStage :
    LET s == stepsLog[k]
    IN  /\ [m \in 1..Len(evalLog) |-> evalLog[m].id] = [m \in 1..Len(s.in) |-> s.in[m].id]
        /\ [m \in 1..Len(s.out) |-> s.out[m].id] =
             [m \in 1..Len(KeptEvaluations) |-> KeptEvaluations[m].id]
        /\ \A m \in 1..Len(s.out) :
             LET a == s.out[m].ai
                 e == KeptEvaluations[m]
             IN  /\ a.present
                 /\ IF e.out.err # ""
                      THEN /\ a.error = e.out.err
                           /\ ~a.fit /\ a.score = 0 /\ a.reason = "" /\ a.message = ""
                      ELSE a.error = "" /\ a.fit
                 /\ ~(a.error = "" /\ ~a.fit)

\* C36, its case: a stage that received MaxVac vacancies, could not fetch
\* one or found it not to fit, and returned another with the error of its
\* evaluation alone.
C36_Witness ==
  \E k \in AIStage :
    /\ Len(stepsLog[k].in) = MaxVac
    /\ Len(stepsLog[k].out) < MaxVac
    /\ \E m \in 1..Len(stepsLog[k].out) : stepsLog[k].out[m].ai.error # ""
    /\ \E m \in 1..Len(evalLog) : ~evalLog[m].fetched \/ (evalLog[m].out.err = "" /\ ~evalLog[m].out.fit)

\* Run has returned the error of a filter's Apply.
ApplyFailed ==
  /\ pc = "done"
  /\ result.status = "err"
  /\ applyLog # <<>>
  /\ applyLog[Len(applyLog)].err # ""

\* C37: when the Apply of a filter has returned an error (the negotiation
\* history or the resume could not be fetched, the exclude file could not be
\* read), the collection it was given still holds the vacancies it held before
\* the call, in their order, and the filter has reported no Step.
C37_FailedApplyRemovesNothing ==
  ApplyFailed =>
    /\ v = Current
    /\ result.name = applyLog[Len(applyLog)].name
    /\ \A k \in 1..Len(stepsLog) : stepsLog[k].name # result.name

\* C37, its case: an earlier filter has dropped a vacancy, and the Apply of
\* applied_history, of exclude_file or of ai_fit then failed on the
\* vacancies that were left.
C37_Witness ==
  /\ ApplyFailed
  /\ result.name \in {AppliedHistoryName, ExcludeFileName, AIFitName}
  /\ stepsLog # <<>>
  /\ v # <<>>
  /\ Len(v) < Len(input)

\* The provider's k-th answer was a response without any text.
EmptyAnswer(k) == outs[k].kind = "ok" /\ ~HasText(outs[k])

\* C38: a response without text ends the call of Generate at once: it is the
\* last answer of the provider, no wait and no provider call follows it,
\* and Generate has returned the empty-response error, whatever number of
\* attempts is left.
C38_EmptyResponseEndsCall ==
  \A k \in 1..Len(outs) :
    EmptyAnswer(k) =>
      /\ k = Len(outs)
      /\ calls = k
      /\ Len(waits) = k - 1
      /\ gpc = "done"
      /\ genResult = GenErr("gemini api returned empty response")

\* C38, its case: the second of four allowed calls was answered without
\* text after one wait, and Generate has returned with two attempts left.
C38_Witness ==
  /\ gMaxRetries = 4
  /\ Len(outs) = 2
  /\ EmptyAnswer(2)
  /\ outs[2].parts = <<>>
  /\ calls = 2
  /\ Len(waits) = 1
  /\ gpc = "done"

\* ------------------------------------------------------------------------
\* Termination of the generator
\* ------------------------------------------------------------------------
\* Every provider call returns and every wait ends, by the sleep elapsing or
\* by ctx being done; whether and when the caller cancels is left open.
GenFairSpec ==
  /\ GenSpec
  /\ WF_vars(GenStart)
  /\ WF_vars(GenCall)
  /\ WF_vars(GenWaitElapsed)
  /\ WF_vars(GenWaitCancelled)

\* Generate has returned a text or an error.
Returned == gpc = "done" /\ genResult.status \in {"ok", "err"}

\* C39: every call of Generate returns, with a text or with an error, and
\* stays returned; up to there it has called the provider at most as often
\* as the maximum allows and has waited at most once less, so it does not
\* stay between two attempts.
C39_GenerateTerminates ==
  /\ <>[]Returned
  /\ [](calls <= MaxAttempts /\ Len(waits) <= MaxAttempts - 1)
  /\ [](gpc = "wait" => <>(gpc # "wait"))

\* C39, its case: Generate has returned after four calls and three waits,
\* the maximum configured.
C39_Witness ==
  /\ gMaxRetries = 4
  /\ Returned
  /\ calls = 4
  /\ Len(waits) = 3

====
